---- MODULE Spec2Model ----
(***************************************************************************)
(* A model of iregex: the automata library (NFA, DFA, determinization,     *)
(* minimization), the IR -> NFA compiler and the compound matcher.          *)
(***************************************************************************)
EXTENDS Integers, Sequences, FiniteSets, TLC

VARIABLES
    phase,          \* "ir" | "compiled" | "matching", or the step of another run
    ire,            \* the IRegEx being compiled (root, prefix, suffix, classes),
                    \* or the IR fragment build_nfa_from is called on
    aut,            \* the CompoundAutomaton returned by IRegEx::compile, or
                    \* what build_nfa_from returned for a fragment, or the
                    \* other operand of NFA::product
    hay,            \* the haystack handed to matches()
    rest,           \* Matches.haystack: the tokens the session has not consumed
    prefix_state,   \* Matches.prefix_state: Option<VisitingState>
    class,          \* Matches.class
    position,       \* Matches.position (byte offset)
    min,            \* Matches.min
    out,            \* the ranges returned by next() so far, in order, or what
                    \* the queries of nfa have returned
    ret,            \* what the last iteration of next() returned
    recalled,       \* next() was called again after it had returned None
    nfa,            \* an NFA built with the construction operations
    dfa,            \* the DFA returned by nfa.determinize, or one built with
                    \* DFA::new, add and add_final_state
    mdfa,           \* the DFA returned by dfa.minimize, or the locals of
                    \* minimize (seed, partition, working) while its loop runs
    aphase,         \* "idle" | "building" | "determinized" | "refining" |
                    \* "minimized" | "mapped" | "try_mapped" | "compressed"
    state_builder,  \* a U32StateBuilder whose next_state is called repeatedly
    sessions        \* the cursors of the Matches values over the shared aut

vars == <<phase, ire, aut, hay, rest, prefix_state, class, position, min, out,
          ret, recalled, nfa, dfa, mdfa, aphase, state_builder, sessions>>

matchVars == <<phase, ire, aut, hay, rest, prefix_state, class, position, min,
               out, ret, recalled, state_builder, sessions>>

autVars == <<nfa, dfa, mdfa, aphase, state_builder, sessions>>

(***************************************************************************)
(* Bounds of the model.                                                    *)
(***************************************************************************)
\* Longest haystack (in tokens) handed to matches(), longest word tried on an automaton.
MaxLen == 3

\* Most transitions added to an NFA built with the construction operations.
MaxAdds == 2

(***************************************************************************)
(* Option, tokens, classes.                                                *)
(***************************************************************************)
None == <<>>

Some(x) == <<x>>

IsSome(o) == Len(o) = 1

Unwrap(o) == o[1]

\* The token alphabet: 0 and 1 are one-byte word characters, 2 is a
\* two-byte character that is not a word character.
Tokens == {0, 1, 2}

WideTokens == {2}

WordTokens == {0, 1}

\* Token::len for char: the UTF-8 width of the token.
TokenLen(t) == IF t \in WideTokens THEN 2 ELSE 1

\* Token::all()
AllTokens == Tokens

\* The classes of a class model with n classes: n = 1 is the unit class (),
\* n = 2 is a one-token context "the last token was a word character",
\* n = 3 is the one-token context "the last token".
Classes(n) == 0 .. (n - 1)

\* C::default()
DefaultClass == 0

\* Class::next_class. With three classes the class is the last token read.
NextClass(n, c, t) ==
    IF n = 1 THEN 0 ELSE IF n = 2 THEN (IF t \in WordTokens THEN 1 ELSE 0) ELSE t

\* Class::classify: the map from class to the part of the set that leads to
\* that class. The unit class returns its single entry whatever the set is.
Classify(n, c, set) ==
    IF n = 1 THEN (0 :> set)
    ELSE LET parts == [k \in Classes(n) |-> {t \in set : NextClass(n, c, t) = k}]
         IN [k \in {x \in Classes(n) : parts[x] # {}} |-> parts[k]]

\* Boundary::apply: a boundary is a pure function from class to Option<class>,
\* held as a sequence indexed by class + 1.
BoundaryApply(b, c) == b[c + 1]

(***************************************************************************)
(* Finite maps keyed by class (C::Map).                                    *)
(***************************************************************************)
EmptyMap == <<>>

MapSingleton(c, v) == (c :> v)

MapContains(m, c) == c \in DOMAIN m

MapSet(m, c, v) == [k \in (DOMAIN m) \cup {c} |-> IF k = c THEN v ELSE m[k]]

\* The keys of a map in the order into_entries() yields them.
RECURSIVE SortedSeq(_)
SortedSeq(S) ==
    IF S = {} THEN <<>>
    ELSE LET m == CHOOSE x \in S : \A y \in S : x <= y
         IN <<m>> \o SortedSeq(S \ {m})

MapKeys(m) == SortedSeq(DOMAIN m)

(***************************************************************************)
(* NFA: the transition table (its keys are the declared states), the       *)
(* initial and the final states. A label is None (epsilon) or Some(set).   *)
(***************************************************************************)
NewNFA ==
    [states |-> {}, transitions |-> {}, initial_states |-> {}, final_states |-> {}]

AddState(a, q) == [a EXCEPT !.states = @ \cup {q}]

AddInitialState(a, q) == [a EXCEPT !.initial_states = @ \cup {q}]

AddFinalState(a, q) == [a EXCEPT !.final_states = @ \cup {q}]

\* NFA::add: declares the target, then inserts into the source's entry.
Add(a, source, label, target) ==
    [a EXCEPT !.states = @ \cup {source, target},
              !.transitions = @ \cup {<<source, label, target>>}]

EpsilonTargets(a, q) ==
    {tr[3] : tr \in {x \in a.transitions : x[1] = q /\ x[2] = None}}

TokenTargets(a, q, token) ==
    {tr[3] : tr \in {x \in a.transitions :
                        x[1] = q /\ IsSome(x[2]) /\ token \in Unwrap(x[2])}}

\* The epsilon-closure loops of initial_state / next_state: pop a state,
\* push its epsilon successors that are not in the set yet.
RECURSIVE EpsilonLoop(_, _, _)
EpsilonLoop(a, states, stack) ==
    IF stack = {} THEN states
    ELSE LET q == CHOOSE x \in stack : TRUE
             fresh == EpsilonTargets(a, q) \ states
         IN EpsilonLoop(a, states \cup fresh, (stack \ {q}) \cup fresh)

\* Automaton::initial_state for NFA
InitialState(a) ==
    LET states == EpsilonLoop(a, a.initial_states, a.initial_states)
    IN IF states = {} THEN None ELSE Some(states)

\* next_state without the epsilon-closure of the states the token leads to.
NextStateOfDirect(a, states, token) ==
    LET direct == UNION {TokenTargets(a, q, token) : q \in states}
    IN IF direct = {} THEN None ELSE Some(direct)

\* Automaton::next_state for NFA
NextStateOf(a, states, token) ==
    LET direct == UNION {TokenTargets(a, q, token) : q \in states}
        next_states == EpsilonLoop(a, direct, direct)
    IN IF next_states = {} THEN None ELSE Some(next_states)

\* Automaton::is_final_state for NFA
IsFinalState(a, states) == \E q \in states : q \in a.final_states

(***************************************************************************)
(* IR nodes. An atom is a record with the same fields whatever its kind;   *)
(* a Concatenation is a sequence of atoms, an Alternation a sequence of    *)
(* Concatenations.                                                         *)
(***************************************************************************)
\* Atom::Token(set)
Token(set) ==
    [k |-> "token", set |-> set, alt |-> <<>>, min |-> 0, max |-> None, b |-> <<>>]

\* Atom::Repeat(alt, Repeat { min, max })
Repeat(alt, rmin, rmax) ==
    [k |-> "repeat", set |-> {}, alt |-> alt, min |-> rmin, max |-> rmax, b |-> <<>>]

\* Atom::Boundary(b)
Boundary(b) ==
    [k |-> "boundary", set |-> {}, alt |-> <<>>, min |-> 0, max |-> None, b |-> b]

\* Atom::Capture(id, alt)
Capture(id, alt) ==
    [k |-> "capture", set |-> {}, alt |-> alt, min |-> id, max |-> None, b |-> <<>>]

\* Atom::star
Star(alt) == Repeat(alt, 0, None)

\* Affix::Any, Affix::Anchor, Affix::Alternation(alt)
AffixAny == [k |-> "any", alt |-> <<>>]

AffixAnchor == [k |-> "anchor", alt |-> <<>>]

AffixAlternation(alt) == [k |-> "alternation", alt |-> alt]

\* is_zero that needs max to be two below min.
IsZeroStrict(rmin, rmax) == IsSome(rmax) /\ Unwrap(rmax) + 1 < rmin

\* Repeat::is_zero
IsZero(rmin, rmax) == IsSome(rmax) /\ Unwrap(rmax) < rmin

\* Repeat::is_one
IsOne(rmin, rmax) == rmin = 1 /\ rmax = Some(1)

(***************************************************************************)
(* The state builder and the NFA under construction, threaded through the  *)
(* compiler as one record: n (the number of classes of the class model),   *)
(* sb (U32StateBuilder.states), limit, nfa, tags, err (TooManyStates was   *)
(* returned: every later step is skipped, as `?` returns at once).         *)
(***************************************************************************)
\* U32StateBuilder::default. u32::MAX is beyond the integers of the checker;
\* the largest one it holds stands for it, and no compilation of the model
\* allocates that many states.
DefaultLimit == 2147483647

\* Tags::new: no mark. A mark is <<source, tag, target>>.
NewTags == {}

\* CaptureTag::Begin(id), CaptureTag::End(id)
Begin(id) == <<"begin", id>>

End(id) == <<"end", id>>

NewBuilder(n, limit) ==
    [n |-> n, sb |-> <<>>, limit |-> limit, nfa |-> NewNFA, tags |-> NewTags,
     err |-> FALSE]

Ret(ctx, q, map) == [ctx |-> ctx, q |-> q, map |-> map]

\* next_state that declares the state before it checks the limit.
SbNextStateEager(ctx, c) ==
    IF ctx.err THEN [ctx |-> ctx, q |-> 0]
    ELSE LET q == Len(ctx.sb)
             pushed == Append(ctx.sb, c)
             declared == [ctx EXCEPT !.sb = pushed, !.nfa = AddState(@, q)]
         IN IF Len(pushed) > ctx.limit
            THEN [ctx |-> [declared EXCEPT !.err = TRUE], q |-> 0]
            ELSE [ctx |-> declared, q |-> q]

\* U32StateBuilder::next_state
SbNextState(ctx, c) ==
    IF ctx.err THEN [ctx |-> ctx, q |-> 0]
    ELSE LET q == Len(ctx.sb)
             pushed == Append(ctx.sb, c)
         IN IF Len(pushed) > ctx.limit
            THEN [ctx |-> [ctx EXCEPT !.sb = pushed, !.err = TRUE], q |-> 0]
            ELSE [ctx |-> [ctx EXCEPT !.sb = pushed, !.nfa = AddState(@, q)],
                  q |-> q]

\* U32StateBuilder::class_of (of a state the builder has allocated)
ClassOf(ctx, q) == ctx.sb[q + 1]

\* nfa.add on the NFA under construction
CtxAdd(ctx, source, label, target) ==
    IF ctx.err THEN ctx ELSE [ctx EXCEPT !.nfa = Add(@, source, label, target)]

\* ClassAlternation::insert: the shared exit state of a class, allocated on
\* first use.
ClassAlternationInsert(ctx, map, c) ==
    IF ctx.err THEN Ret(ctx, 0, map)
    ELSE IF MapContains(map, c) THEN Ret(ctx, map[c], map)
    ELSE LET r == SbNextState(ctx, c)
         IN IF r.ctx.err THEN Ret(r.ctx, 0, map)
            ELSE Ret(r.ctx, r.q, MapSet(map, c, r.q))

\* ClassConcatenation::insert: the first state of a class is kept as is; a
\* second one allocates a join state d (once: merging), later ones are
\* epsilon-connected to it.
ClassConcatenationInsert(ctx, map, q) ==
    IF ctx.err THEN Ret(ctx, 0, map)
    ELSE LET c == ClassOf(ctx, q)
             m == IF MapContains(map, c) THEN map ELSE MapSet(map, c, <<q, FALSE>>)
             r == m[c][1]
             merging == m[c][2]
         IN IF r = q THEN Ret(ctx, 0, m)
            ELSE IF merging THEN Ret(CtxAdd(ctx, q, None, r), 0, m)
            ELSE LET d == SbNextState(ctx, c)
                 IN IF d.ctx.err THEN Ret(d.ctx, 0, m)
                    ELSE Ret(CtxAdd(CtxAdd(d.ctx, q, None, d.q), r, None, d.q),
                             0, MapSet(m, c, <<d.q, TRUE>>))

\* ClassConcatenation::into_map, and the collect at the end of
\* Concatenation::build_nfa_from
IntoMap(map) == [c \in DOMAIN map |-> map[c][1]]

\* Map::get_or_try_insert_with, called with state_builder.next_state
GetOrTryInsertWith(ctx, map, c) ==
    IF ctx.err THEN Ret(ctx, 0, map)
    ELSE IF MapContains(map, c) THEN Ret(ctx, map[c], map)
    ELSE LET t == SbNextState(ctx, c)
         IN IF t.ctx.err THEN Ret(t.ctx, 0, map)
            ELSE Ret(t.ctx, t.q, MapSet(map, c, t.q))

\* The merge that keeps the first exit of a class and connects no later one.
FrontierMergeUnjoined(ctx, map, b_class, atom_b) ==
    IF ctx.err \/ MapContains(map, b_class) THEN Ret(ctx, 0, map)
    ELSE Ret(ctx, 0, MapSet(map, b_class, <<atom_b, FALSE>>))

\* Concatenation::build_nfa_from: one exit (b_class, atom_b) of an atom
\* merged into the frontier map of (state, merging) pairs.
FrontierMerge(ctx, map, b_class, atom_b) ==
    IF ctx.err THEN Ret(ctx, 0, map)
    ELSE LET m == IF MapContains(map, b_class) THEN map
                  ELSE MapSet(map, b_class, <<atom_b, FALSE>>)
             cur == m[b_class][1]
             merging == m[b_class][2]
         IN IF cur = atom_b THEN Ret(ctx, 0, m)
            ELSE IF merging THEN Ret(CtxAdd(ctx, atom_b, None, cur), 0, m)
            ELSE LET d == SbNextState(ctx, b_class)
                 IN IF d.ctx.err THEN Ret(d.ctx, 0, m)
                    ELSE Ret(CtxAdd(CtxAdd(d.ctx, atom_b, None, d.q), cur, None, d.q),
                             0, MapSet(m, b_class, <<d.q, TRUE>>))

\* self.max.map(|max| max - 1)
DecMax(rmax) == IF IsSome(rmax) THEN Some(Unwrap(rmax) - 1) ELSE None

(***************************************************************************)
(* build_nfa_from of every IR node: (entry state, exit state per class).   *)
(***************************************************************************)
RECURSIVE BuildAtom(_, _, _)
RECURSIVE BuildConcatenation(_, _, _)
RECURSIVE BuildAlternation(_, _, _)
RECURSIVE BuildRepeat(_, _, _, _, _)
RECURSIVE KleeneStarClosure(_, _, _, _)
RECURSIVE TokenEntries(_, _, _, _, _)
RECURSIVE ConcatenationAtoms(_, _, _)
RECURSIVE ConcatenationFrontier(_, _, _, _, _)
RECURSIVE ConcatenationExits(_, _, _, _)
RECURSIVE AlternationBranches(_, _, _, _, _)
RECURSIVE AlternationExits(_, _, _, _)
RECURSIVE RepeatTail(_, _, _, _, _, _, _)
RECURSIVE RepeatTailExits(_, _, _, _)
RECURSIVE RepeatOptional(_, _, _, _, _, _)
RECURSIVE RepeatOptionalExits(_, _, _, _)
RECURSIVE KleeneExits(_, _, _, _, _)
RECURSIVE KleeneExitsSameLoop(_, _, _, _, _)

\* Atom::build_nfa_from, Token: one exit state and one edge per class of
\* class.classify(set).
TokenEntries(ctx, a, parts, keys, output) ==
    IF keys = <<>> \/ ctx.err THEN Ret(ctx, a, output)
    ELSE LET b == SbNextState(ctx, Head(keys))
         IN TokenEntries(CtxAdd(b.ctx, a, Some(parts[Head(keys)]), b.q), a, parts,
                         Tail(keys), MapSet(output, Head(keys), b.q))

\* Atom::build_nfa_from
BuildAtom(ctx, atom, c) ==
    IF ctx.err THEN Ret(ctx, 0, EmptyMap)
    ELSE CASE atom.k = "boundary" ->
              LET a == SbNextState(ctx, c)
                  applied == BoundaryApply(atom.b, c)
              IN IF IsSome(applied)
                 THEN LET b == SbNextState(a.ctx, Unwrap(applied))
                      IN Ret(b.ctx, a.q, MapSingleton(Unwrap(applied), b.q))
                 ELSE Ret(a.ctx, a.q, EmptyMap)
           [] atom.k = "token" ->
              LET a == SbNextState(ctx, c)
                  parts == Classify(ctx.n, c, atom.set)
              IN TokenEntries(a.ctx, a.q, parts, MapKeys(parts), EmptyMap)
           [] atom.k = "repeat" -> BuildRepeat(ctx, atom.alt, atom.min, atom.max, c)
           [] atom.k = "capture" -> BuildAlternation(ctx, atom.alt, c)

\* Concatenation::build_nfa_from: the exits of one atom merged into the frontier.
ConcatenationExits(ctx, atom_b_map, keys, map) ==
    IF keys = <<>> \/ ctx.err THEN Ret(ctx, 0, map)
    ELSE LET r == FrontierMerge(ctx, map, Head(keys), atom_b_map[Head(keys)])
         IN ConcatenationExits(r.ctx, atom_b_map, Tail(keys), r.map)

\* Concatenation::build_nfa_from: one atom built from every entry of the
\* frontier taken before it (old), its exits collected in the new frontier.
ConcatenationFrontier(ctx, atom, old, keys, map) ==
    IF keys = <<>> \/ ctx.err THEN Ret(ctx, 0, map)
    ELSE LET Merge(built) ==
                 ConcatenationExits(CtxAdd(built.ctx, old[Head(keys)][1], None, built.q),
                                    built.map, MapKeys(built.map), map)
             Rest(merged) ==
                 ConcatenationFrontier(merged.ctx, atom, old, Tail(keys), merged.map)
         IN Rest(Merge(BuildAtom(ctx, atom, Head(keys))))

\* Concatenation::build_nfa_from: the loop over the atoms.
ConcatenationAtoms(ctx, list, map) ==
    IF list = <<>> \/ ctx.err THEN Ret(ctx, 0, map)
    ELSE LET Rest(r) == ConcatenationAtoms(r.ctx, Tail(list), r.map)
         IN Rest(ConcatenationFrontier(ctx, Head(list), map, MapKeys(map), EmptyMap))

\* Concatenation::build_nfa_from with the empty concatenation given no exit,
\* as the empty alternation is.
BuildConcatenationNoExit(ctx, list, c) ==
    IF ctx.err THEN Ret(ctx, 0, EmptyMap)
    ELSE IF Len(list) = 0
         THEN LET a == SbNextState(ctx, c) IN Ret(a.ctx, a.q, EmptyMap)
    ELSE IF Len(list) = 1 THEN BuildAtom(ctx, list[1], c)
    ELSE LET a == SbNextState(ctx, c)
             Output(r) == Ret(r.ctx, a.q, IntoMap(r.map))
         IN Output(ConcatenationAtoms(a.ctx, list, MapSingleton(c, <<a.q, FALSE>>)))

\* Concatenation::build_nfa_from
BuildConcatenation(ctx, list, c) ==
    IF ctx.err THEN Ret(ctx, 0, EmptyMap)
    ELSE IF Len(list) = 0
         THEN LET a == SbNextState(ctx, c) IN Ret(a.ctx, a.q, MapSingleton(c, a.q))
    ELSE IF Len(list) = 1 THEN BuildAtom(ctx, list[1], c)
    ELSE LET a == SbNextState(ctx, c)
             Output(r) == Ret(r.ctx, a.q, IntoMap(r.map))
         IN Output(ConcatenationAtoms(a.ctx, list, MapSingleton(c, <<a.q, FALSE>>)))

RECURSIVE AlternationExitsUnshared(_, _, _, _)
\* The join that connects only the first branch that reaches a class.
AlternationExitsUnshared(ctx, concat_b_map, keys, output) ==
    IF keys = <<>> \/ ctx.err THEN Ret(ctx, 0, output)
    ELSE IF MapContains(output, Head(keys))
         THEN AlternationExitsUnshared(ctx, concat_b_map, Tail(keys), output)
    ELSE LET b == GetOrTryInsertWith(ctx, output, Head(keys))
         IN AlternationExitsUnshared(CtxAdd(b.ctx, concat_b_map[Head(keys)], None, b.q),
                                     concat_b_map, Tail(keys), b.map)

\* Alternation::build_nfa_from: the exits of one branch joined to the shared
\* exit of their class.
AlternationExits(ctx, concat_b_map, keys, output) ==
    IF keys = <<>> \/ ctx.err THEN Ret(ctx, 0, output)
    ELSE LET b == GetOrTryInsertWith(ctx, output, Head(keys))
         IN AlternationExits(CtxAdd(b.ctx, concat_b_map[Head(keys)], None, b.q),
                             concat_b_map, Tail(keys), b.map)

\* Alternation::build_nfa_from: the loop over the branches.
AlternationBranches(ctx, a, list, c, output) ==
    IF list = <<>> \/ ctx.err THEN Ret(ctx, a, output)
    ELSE LET Join(built) ==
                 AlternationExits(CtxAdd(built.ctx, a, None, built.q), built.map,
                                  MapKeys(built.map), output)
             Rest(r) == AlternationBranches(r.ctx, a, Tail(list), c, r.map)
         IN Rest(Join(BuildConcatenation(ctx, Head(list), c)))

\* Alternation::build_nfa_from
BuildAlternation(ctx, list, c) ==
    IF ctx.err THEN Ret(ctx, 0, EmptyMap)
    ELSE IF Len(list) = 0
         THEN LET a == SbNextState(ctx, c) IN Ret(a.ctx, a.q, EmptyMap)
    ELSE IF Len(list) = 1 THEN BuildConcatenation(ctx, list[1], c)
    ELSE LET a == SbNextState(ctx, c)
         IN AlternationBranches(a.ctx, a.q, list, c, EmptyMap)

\* Repeat::build_nfa_for, min > 0: the exits ds of one recursive build
\* inserted into the ClassConcatenation.
RepeatTailExits(ctx, ds, keys, output) ==
    IF keys = <<>> \/ ctx.err THEN Ret(ctx, 0, output)
    ELSE LET r == ClassConcatenationInsert(ctx, output, ds[Head(keys)])
         IN RepeatTailExits(r.ctx, ds, Tail(keys), r.map)

\* Repeat::build_nfa_for, min > 0: from every exit (b_class, b) of the first
\* copy, the rest of the repetition.
RepeatTail(ctx, alt, rmin, rmax, bs, keys, output) ==
    IF keys = <<>> \/ ctx.err THEN Ret(ctx, 0, output)
    ELSE LET Join(built) ==
                 RepeatTailExits(CtxAdd(built.ctx, bs[Head(keys)], None, built.q),
                                 built.map, MapKeys(built.map), output)
             Rest(r) == RepeatTail(r.ctx, alt, rmin, rmax, bs, Tail(keys), r.map)
         IN Rest(Join(BuildRepeat(ctx, alt, rmin, rmax, Head(keys))))

\* Repeat::build_nfa_for, min = 0 and max = Some(max): the exits of the
\* recursive build connected to the final state of their class.
RepeatOptionalExits(ctx, d_output, keys, output) ==
    IF keys = <<>> \/ ctx.err THEN Ret(ctx, 0, output)
    ELSE LET f == ClassAlternationInsert(ctx, output, Head(keys))
         IN RepeatOptionalExits(CtxAdd(f.ctx, d_output[Head(keys)], None, f.q),
                                d_output, Tail(keys), f.map)

\* Repeat::build_nfa_for, min = 0 and max = Some(max): the loop over the
\* exits (c_class, c) of the intermediate copy.
RepeatOptional(ctx, alt, max, b_output, keys, output) ==
    IF keys = <<>> \/ ctx.err THEN Ret(ctx, 0, output)
    ELSE IF max > 0
         THEN LET Join(built) ==
                      RepeatOptionalExits(
                          CtxAdd(built.ctx, b_output[Head(keys)], None, built.q),
                          built.map, MapKeys(built.map), output)
                  Rest(r) == RepeatOptional(r.ctx, alt, max, b_output, Tail(keys), r.map)
              IN Rest(Join(BuildRepeat(ctx, alt, 0, Some(max - 1), Head(keys))))
         ELSE LET f == ClassAlternationInsert(ctx, output, Head(keys))
              IN RepeatOptional(CtxAdd(f.ctx, b_output[Head(keys)], None, f.q),
                                alt, max, b_output, Tail(keys), f.map)

\* The exits of the body all connected to the loop state of the first
\* class of the map, no loop being built for the class of an exit.
KleeneExitsSameLoop(ctx, map, alt, bs, keys) ==
    IF keys = <<>> \/ ctx.err THEN Ret(ctx, 0, map)
    ELSE KleeneExitsSameLoop(
             CtxAdd(ctx, bs[Head(keys)], None, map[Head(MapKeys(map))]),
             map, alt, bs, Tail(keys))

\* kleene_star_closure: the exits of the body connected to the loop state
\* of their class.
KleeneExits(ctx, map, alt, bs, keys) ==
    IF keys = <<>> \/ ctx.err THEN Ret(ctx, 0, map)
    ELSE LET Rest(target) ==
                 KleeneExits(CtxAdd(target.ctx, bs[Head(keys)], None, target.q),
                             target.map, alt, bs, Tail(keys))
         IN Rest(KleeneStarClosure(ctx, map, alt, Head(keys)))

\* kleene_star_closure
KleeneStarClosure(ctx, map, alt, c) ==
    IF ctx.err THEN Ret(ctx, 0, map)
    ELSE IF MapContains(map, c) THEN Ret(ctx, map[c], map)
    ELSE LET q == SbNextState(ctx, c)
             Close(built) ==
                 KleeneExits(CtxAdd(built.ctx, q.q, None, built.q), MapSet(map, c, q.q),
                             alt, built.map, MapKeys(built.map))
             Output(r) == Ret(r.ctx, q.q, r.map)
         IN Output(Close(BuildAlternation(CtxAdd(q.ctx, q.q, None, q.q), alt, c)))

\* Repeat::build_nfa_for
BuildRepeat(ctx, alt, rmin, rmax, c) ==
    IF ctx.err THEN Ret(ctx, 0, EmptyMap)
    ELSE IF IsZero(rmin, rmax)
         THEN LET a == SbNextState(ctx, c) IN Ret(a.ctx, a.q, MapSingleton(c, a.q))
    ELSE IF IsOne(rmin, rmax) THEN BuildAlternation(ctx, alt, c)
    ELSE IF rmin > 0
         THEN LET Tail1(built) ==
                      [a |-> built.q,
                       r |-> RepeatTail(built.ctx, alt, rmin - 1, DecMax(rmax), built.map,
                                        MapKeys(built.map), EmptyMap)]
                  Output(t) == Ret(t.r.ctx, t.a, IntoMap(t.r.map))
              IN Output(Tail1(BuildAlternation(ctx, alt, c)))
    ELSE IF IsSome(rmax)
         THEN LET a == SbNextState(ctx, c)
                  Optional(built) ==
                      LET f == SbNextState(built.ctx, c)
                      IN RepeatOptional(
                             CtxAdd(CtxAdd(f.ctx, a.q, None, built.q), a.q, None, f.q),
                             alt, Unwrap(rmax), built.map, MapKeys(built.map),
                             MapSingleton(c, f.q))
                  Output(r) == Ret(r.ctx, a.q, r.map)
              IN Output(Optional(BuildAlternation(a.ctx, alt, c)))
    ELSE KleeneStarClosure(ctx, EmptyMap, alt, c)

\* Affix::build_nfa_from with Anchor built as Any is.
BuildAffixUnanchored(ctx, affix, c) ==
    CASE affix.k \in {"any", "anchor"} ->
            BuildAlternation(ctx, << << Star(<< << Token(AllTokens) >> >>) >> >>, c)
      [] affix.k = "alternation" -> BuildAlternation(ctx, affix.alt, c)

\* Affix::build_nfa_from with Any built as Anchor is.
BuildAffixAnchored(ctx, affix, c) ==
    CASE affix.k \in {"any", "anchor"} -> BuildAlternation(ctx, << <<>> >>, c)
      [] affix.k = "alternation" -> BuildAlternation(ctx, affix.alt, c)

\* Affix::build_nfa_from
BuildAffix(ctx, affix, c) ==
    CASE affix.k = "any" ->
            BuildAlternation(ctx, << << Star(<< << Token(AllTokens) >> >>) >> >>, c)
      [] affix.k = "anchor" -> BuildAlternation(ctx, << <<>> >>, c)
      [] affix.k = "alternation" -> BuildAlternation(ctx, affix.alt, c)

\* BuildNFA::build_nfa, after build_nfa_from: the entry is the initial
\* state, every exit a final state.
Finish(r) ==
    [ctx |-> r.ctx,
     nfa |-> [r.ctx.nfa EXCEPT !.initial_states = @ \cup {r.q},
                               !.final_states = @ \cup {r.map[c] : c \in DOMAIN r.map}],
     tags |-> r.ctx.tags]

\* BuildNFA::build_nfa for an Affix: a new NFA, built with the shared builder.
BuildNfaAffix(ctx, affix, c) ==
    Finish(BuildAffix([ctx EXCEPT !.nfa = NewNFA, !.tags = NewTags], affix, c))

\* BuildNFA::build_nfa for an Alternation
BuildNfaAlternation(ctx, alt, c) ==
    Finish(BuildAlternation([ctx EXCEPT !.nfa = NewNFA, !.tags = NewTags], alt, c))

RECURSIVE CompileRoots(_, _, _, _)
RECURSIVE CompileSuffixes(_, _, _, _)

\* The root loop that stops after the first final state of the prefix.
CompileRootsFirst(ctx, alt, finals, root) ==
    IF finals = <<>> \/ ctx.err THEN [ctx |-> ctx, map |-> root]
    ELSE LET Only(built) ==
                 [ctx |-> built.ctx,
                  map |-> MapSet(root, ClassOf(ctx, Head(finals)), built.nfa)]
         IN Only(BuildNfaAlternation(ctx, alt, ClassOf(ctx, Head(finals))))

\* IRegEx::compile: one root automaton per class of a final state of the prefix.
CompileRoots(ctx, alt, finals, root) ==
    IF finals = <<>> \/ ctx.err THEN [ctx |-> ctx, map |-> root]
    ELSE LET q_class == ClassOf(ctx, Head(finals))
         IN IF MapContains(root, q_class)
            THEN CompileRoots(ctx, alt, Tail(finals), root)
            ELSE LET Rest(built) ==
                         CompileRoots(built.ctx, alt, Tail(finals),
                                      MapSet(root, q_class, built.nfa))
                 IN Rest(BuildNfaAlternation(ctx, alt, q_class))

\* IRegEx::compile: one suffix automaton per class of a final state of a root.
CompileSuffixes(ctx, affix, finals, suffix) ==
    IF finals = <<>> \/ ctx.err THEN [ctx |-> ctx, map |-> suffix]
    ELSE LET q_class == ClassOf(ctx, Head(finals))
         IN IF MapContains(suffix, q_class)
            THEN CompileSuffixes(ctx, affix, Tail(finals), suffix)
            ELSE LET Rest(built) ==
                         CompileSuffixes(built.ctx, affix, Tail(finals),
                                         MapSet(suffix, q_class, built.nfa))
                 IN Rest(BuildNfaAffix(ctx, affix, q_class))

\* The final states of the root automata, in the order compile visits them.
RECURSIVE RootFinals(_, _)
RootFinals(root, keys) ==
    IF keys = <<>> THEN <<>>
    ELSE SortedSeq(root[Head(keys)].final_states) \o RootFinals(root, Tail(keys))

\* IRegEx::compile. ok is FALSE when Err(TooManyStates) was returned; sb is
\* what the state builder holds after the call (the class of every state it
\* allocated, as class_of tells it); partial is the NFA that was under
\* construction when next_state failed, which compile drops.
Compile(r, builder) ==
    LET WithRoots(prefix) ==
            [prefix |-> prefix,
             roots |-> CompileRoots(prefix.ctx, r.root,
                                    SortedSeq(prefix.nfa.final_states), EmptyMap)]
        WithSuffixes(p) ==
            [prefix |-> p.prefix, roots |-> p.roots,
             suffixes |-> CompileSuffixes(p.roots.ctx, r.suffix,
                                          RootFinals(p.roots.map, MapKeys(p.roots.map)),
                                          EmptyMap)]
        Output(p) ==
            IF p.prefix.ctx.err \/ p.roots.ctx.err \/ p.suffixes.ctx.err
            THEN [ok |-> FALSE, n |-> r.n, prefix |-> NewNFA, root |-> EmptyMap,
                  suffix |-> EmptyMap, sb |-> p.suffixes.ctx.sb,
                  partial |-> p.suffixes.ctx.nfa]
            ELSE [ok |-> TRUE, n |-> r.n, prefix |-> p.prefix.nfa, root |-> p.roots.map,
                  suffix |-> p.suffixes.map, sb |-> p.suffixes.ctx.sb,
                  partial |-> NewNFA]
    IN Output(WithSuffixes(WithRoots(BuildNfaAffix(builder, r.prefix, DefaultClass))))

(***************************************************************************)
(* The compound matcher: Matches over a CompoundAutomaton.                 *)
(***************************************************************************)
RECURSIVE SuffixLoop(_, _, _)
RECURSIVE RootLoop(_, _, _, _, _, _, _)

\* check_suffix: the loop over the remaining tokens.
SuffixLoop(suffix, suffix_state, h) ==
    IF h = <<>> THEN IsFinalState(suffix, suffix_state)
    ELSE LET next_state == NextStateOf(suffix, suffix_state, Head(h))
         IN IF IsSome(next_state) THEN SuffixLoop(suffix, Unwrap(next_state), Tail(h))
            ELSE FALSE

\* Matches::check_suffix that looks the suffix automaton up and does not
\* run it.
CheckSuffixUnchecked(a, h, c) == MapContains(a.suffix, c)

\* Matches::check_suffix
CheckSuffix(a, h, c) ==
    IF ~MapContains(a.suffix, c) THEN FALSE
    ELSE LET suffix_state == InitialState(a.suffix[c])
         IN IF IsSome(suffix_state) THEN SuffixLoop(a.suffix[c], Unwrap(suffix_state), h)
            ELSE FALSE

RECURSIVE RootLoopShortest(_, _, _, _, _, _, _)
\* The loop of next_from_position returning the first end at which the
\* suffix checks instead of the last.
RootLoopShortest(a, root, root_state, h, c, end, candidate) ==
    IF IsFinalState(root, root_state) /\ CheckSuffix(a, h, c) THEN Some(end)
    ELSE IF h = <<>> THEN candidate
    ELSE LET next_state == NextStateOf(root, root_state, Head(h))
         IN IF IsSome(next_state)
            THEN RootLoopShortest(a, root, Unwrap(next_state), Tail(h),
                                  NextClass(a.n, c, Head(h)), end + TokenLen(Head(h)),
                                  candidate)
            ELSE candidate

\* Matches::next_from_position: the loop of the root automaton over a clone
\* of the haystack, recording the last end at which the suffix checks.
RootLoop(a, root, root_state, h, c, end, candidate) ==
    LET cand == IF IsFinalState(root, root_state) /\ CheckSuffix(a, h, c)
                THEN Some(end) ELSE candidate
    IN IF h = <<>> THEN cand
       ELSE LET token == Head(h)
                next_state == NextStateOf(root, root_state, token)
            IN IF IsSome(next_state)
               THEN RootLoop(a, root, Unwrap(next_state), Tail(h),
                             NextClass(a.n, c, token), end + TokenLen(token), cand)
               ELSE cand

\* Matches::next_from_position
NextFromPosition(a, pos, h, c) ==
    IF ~MapContains(a.root, c) THEN None
    ELSE LET root_state == InitialState(a.root[c])
         IN IF IsSome(root_state)
            THEN RootLoop(a, a.root[c], Unwrap(root_state), h, c, pos, None)
            ELSE None

Max(x, y) == IF x >= y THEN x ELSE y

\* The watermark left at the end of the match, whatever its width.
WatermarkAtEnd(end, pos) == end

\* Matches::next: the watermark left by a match, end.max(position + 1).
Watermark(end, pos) == Max(end, pos + 1)

\* The test of Matches::next with position > min for position >= min.
AttemptPastWatermark ==
    IF IsSome(prefix_state) /\ position > min
       /\ IsFinalState(aut.prefix, Unwrap(prefix_state))
    THEN NextFromPosition(aut, position, rest, class)
    ELSE None

\* Matches::next, the test that opens the loop body: the end of the match
\* found at the current position, if one is attempted and found.
Attempt ==
    IF IsSome(prefix_state) /\ position >= min
       /\ IsFinalState(aut.prefix, Unwrap(prefix_state))
    THEN NextFromPosition(aut, position, rest, class)
    ELSE None

Running == <<"running">>

RetNone == <<"none">>

RetSome(start, end) == <<"some", start, end>>

\* The IRegEx values compiled: every root with every pair of affixes, under
\* the unit class and under the two-class model.
TokA == Token({0})

TokB == Token({1})

TokW == Token({2})

Alt1(atom) == << <<atom>> >>

Roots ==
    { <<>>,
      << <<>> >>,
      Alt1(TokA),
      << <<TokA>>, <<TokB>> >>,
      << <<TokB, TokB>> >>,
      << <<TokA>>, <<TokA, TokB>> >>,
      Alt1(Token(AllTokens)),
      Alt1(Star(Alt1(Token(AllTokens)))),
      Alt1(Star(Alt1(Token({0, 1})))),
      Alt1(Star(<< <<TokA>>, <<TokB, TokW>> >>)),
      << <<TokW, Star(Alt1(TokA))>> >>,
      << <<Token({0, 2}), TokB>> >>,
      Alt1(Repeat(Alt1(TokA), 0, Some(0))),
      Alt1(Repeat(Alt1(TokA), 0, Some(1))),
      Alt1(Repeat(Alt1(TokA), 1, Some(2))),
      Alt1(Repeat(Alt1(TokA), 2, Some(2))),
      Alt1(Repeat(Alt1(TokA), 2, Some(1))),
      Alt1(Repeat(Alt1(Token({1, 2})), 1, None)),
      << <<Boundary(<<None, Some(1)>>), TokA>> >>,
      Alt1(Capture(0, Alt1(TokB))) }

Affixes ==
    { <<AffixAny, AffixAny>>,
      <<AffixAnchor, AffixAnchor>>,
      <<AffixAny, AffixAnchor>>,
      <<AffixAnchor, AffixAny>>,
      <<AffixAlternation(Alt1(Star(Alt1(TokA)))), AffixAlternation(Alt1(TokB))>> }

IRegExes ==
    { [n |-> n, root |-> r, prefix |-> x[1], suffix |-> x[2]] :
        n \in {1, 2}, r \in Roots, x \in Affixes }

RECURSIVE SeqsUpTo(_, _)
SeqsUpTo(S, k) ==
    IF k = 0 THEN { <<>> }
    ELSE LET shorter == SeqsUpTo(S, k - 1)
         IN shorter \cup { Append(w, t) : w \in shorter, t \in S }

Haystacks == SeqsUpTo(Tokens, MaxLen)

InitAut ==
    /\ nfa = NewNFA /\ dfa = <<>> /\ mdfa = <<>> /\ aphase = "idle"
    /\ state_builder = <<>> /\ sessions = <<>>

Init ==
    /\ phase = "ir"
    /\ ire \in IRegExes
    /\ aut = <<>>
    /\ hay = <<>> /\ rest = <<>> /\ prefix_state = None /\ class = DefaultClass
    /\ position = 0 /\ min = 0 /\ out = <<>> /\ ret = Running /\ recalled = FALSE
    /\ InitAut

\* IRegEx::compile with U32StateBuilder::default()
CompileAction ==
    /\ phase = "ir"
    /\ aut' = Compile(ire, NewBuilder(ire.n, DefaultLimit))
    /\ phase' = "compiled"
    /\ UNCHANGED <<ire, hay, rest, prefix_state, class, position, min, out, ret,
                   recalled, autVars>>

\* CompoundAutomaton::matches
Matches(h) ==
    /\ phase = "compiled"
    /\ aut.ok
    /\ phase' = "matching"
    /\ hay' = h
    /\ rest' = h
    /\ prefix_state' = InitialState(aut.prefix)
    /\ class' = DefaultClass
    /\ position' = 0
    /\ min' = 0
    /\ out' = <<>>
    /\ ret' = Running
    /\ recalled' = FALSE
    /\ UNCHANGED <<ire, aut, autVars>>

\* The iteration of Matches::next that returns a match, next_from_position
\* reading the haystack of the session itself and not a clone of it: the
\* tokens it has read are gone.
NextEmitConsuming ==
    /\ phase = "matching"
    /\ IsSome(Attempt)
    /\ min' = Watermark(Unwrap(Attempt), position)
    /\ out' = Append(out, <<position, Unwrap(Attempt)>>)
    /\ ret' = RetSome(position, Unwrap(Attempt))
    /\ rest' = <<>>
    /\ UNCHANGED <<phase, ire, aut, hay, prefix_state, class, position,
                   recalled, autVars>>

\* Matches::next, an iteration that finds a match at the current position
\* and returns it.
NextEmit ==
    /\ phase = "matching"
    /\ IsSome(Attempt)
    /\ min' = Watermark(Unwrap(Attempt), position)
    /\ out' = Append(out, <<position, Unwrap(Attempt)>>)
    /\ ret' = RetSome(position, Unwrap(Attempt))
    /\ UNCHANGED <<phase, ire, aut, hay, rest, prefix_state, class, position,
                   recalled, autVars>>

\* The iteration of Matches::next that moves over the next token, reading
\* it from a clone of the haystack: the haystack itself keeps the token.
NextAdvancePeeking ==
    /\ phase = "matching"
    /\ IsSome(prefix_state)
    /\ ~IsSome(Attempt)
    /\ rest # <<>>
    /\ class' = NextClass(aut.n, class, Head(rest))
    /\ position' = position + TokenLen(Head(rest))
    /\ prefix_state' = NextStateOf(aut.prefix, Unwrap(prefix_state), Head(rest))
    /\ ret' = Running
    /\ UNCHANGED <<phase, ire, aut, hay, rest, min, out, recalled, autVars>>

\* Matches::next, an iteration that finds no match here and moves the
\* prefix automaton over the next token.
NextAdvance ==
    /\ phase = "matching"
    /\ IsSome(prefix_state)
    /\ ~IsSome(Attempt)
    /\ rest # <<>>
    /\ class' = NextClass(aut.n, class, Head(rest))
    /\ position' = position + TokenLen(Head(rest))
    /\ prefix_state' = NextStateOf(aut.prefix, Unwrap(prefix_state), Head(rest))
    /\ rest' = Tail(rest)
    /\ ret' = Running
    /\ UNCHANGED <<phase, ire, aut, hay, min, out, recalled, autVars>>

\* Matches::next, an iteration that finds no match here with the haystack
\* exhausted: the prefix state was taken and None is returned.
NextExhausted ==
    /\ phase = "matching"
    /\ IsSome(prefix_state)
    /\ ~IsSome(Attempt)
    /\ rest = <<>>
    /\ prefix_state' = None
    /\ ret' = RetNone
    /\ UNCHANGED <<phase, ire, aut, hay, rest, class, position, min, out,
                   recalled, autVars>>

\* Matches::next with no prefix state left: None is returned.
NextNone ==
    /\ phase = "matching"
    /\ prefix_state = None
    /\ ret' = RetNone
    /\ recalled' = (recalled \/ ret = RetNone)
    /\ UNCHANGED <<phase, ire, aut, hay, rest, prefix_state, class, position, min,
                   out, autVars>>

Next ==
    \/ CompileAction
    \/ \E h \in Haystacks : Matches(h)
    \/ NextEmit
    \/ NextAdvance
    \/ NextExhausted
    \/ NextNone

Spec == Init /\ [][Next]_vars

(***************************************************************************)
(* Reference semantics: acceptance by an NFA as the existence of a run,    *)
(* token boundaries of the haystack, and what a match is.                  *)
(***************************************************************************)
RECURSIVE Closure(_, _)
\* The least set holding S and closed under epsilon-transitions.
Closure(a, S) ==
    LET T == S \cup UNION {EpsilonTargets(a, q) : q \in S}
    IN IF T = S THEN S ELSE Closure(a, T)

RECURSIVE Reached(_, _, _)
\* The states some run from S ends in after reading w.
Reached(a, S, w) ==
    IF w = <<>> THEN S
    ELSE Reached(a, Closure(a, UNION {TokenTargets(a, q, Head(w)) : q \in S}), Tail(w))

Accepts(a, w) == Reached(a, Closure(a, a.initial_states), w) \cap a.final_states # {}

Boundaries(h) == 0 .. Len(h)

Slice(h, i, j) == SubSeq(h, i + 1, j)

RECURSIVE Offset(_, _)
\* The byte offset of the i-th token boundary: the sum of T::len before it.
Offset(h, i) == IF i = 0 THEN 0 ELSE Offset(h, i - 1) + TokenLen(h[i])

RECURSIVE ClassAt(_, _, _)
\* The class reached at the i-th token boundary.
ClassAt(n, h, i) ==
    IF i = 0 THEN DefaultClass ELSE NextClass(n, ClassAt(n, h, i - 1), h[i])

PrefixAccepts(i) == Accepts(aut.prefix, Slice(hay, 0, i))

RootAccepts(i, j) ==
    LET c == ClassAt(aut.n, hay, i)
    IN MapContains(aut.root, c) /\ Accepts(aut.root[c], Slice(hay, i, j))

SuffixAccepts(j) ==
    LET c == ClassAt(aut.n, hay, j)
    IN MapContains(aut.suffix, c) /\ Accepts(aut.suffix[c], Slice(hay, j, Len(hay)))

\* The root and the suffix make i..j a match.
RootSuffix(i, j) == i <= j /\ RootAccepts(i, j) /\ SuffixAccepts(j)

IsMatch(i, j) == PrefixAccepts(i) /\ RootSuffix(i, j)

\* The longest end of a root-plus-suffix match that starts at boundary i.
LongestEnd(i) ==
    CHOOSE j \in Boundaries(hay) :
        RootSuffix(i, j) /\ \A j2 \in Boundaries(hay) : RootSuffix(i, j2) => j2 <= j

RECURSIVE LeftmostLongest(_, _)
\* The leftmost-longest non-overlapping matches from boundary i on, none
\* starting before the byte offset m.
LeftmostLongest(i, m) ==
    IF i > Len(hay) THEN <<>>
    ELSE IF Offset(hay, i) >= m /\ PrefixAccepts(i)
            /\ \E j \in Boundaries(hay) : RootSuffix(i, j)
         THEN << <<Offset(hay, i), Offset(hay, LongestEnd(i))>> >>
              \o LeftmostLongest(i + 1, Max(Offset(hay, LongestEnd(i)),
                                           Offset(hay, i) + 1))
         ELSE LeftmostLongest(i + 1, m)

IsPrefixOf(s, t) == Len(s) <= Len(t) /\ SubSeq(t, 1, Len(s)) = s

Matching == phase = "matching"

Unanchored == ire.prefix = AffixAny /\ ire.suffix = AffixAny

Anchored == ire.prefix = AffixAnchor /\ ire.suffix = AffixAnchor


(***************************************************************************)
(* Properties of Matches::next.                                            *)
(***************************************************************************)
\* C1: the ranges are emitted in strictly ascending start offset, and the
\* end of each is the largest end at which the root automaton of the class
\* at its start accepts the tokens between and the suffix automaton of the
\* class at that end accepts the rest of the haystack.
C1_AscendingLongest ==
    Matching =>
        \A k \in 1 .. Len(out) :
            /\ k > 1 => out[k - 1][1] < out[k][1]
            /\ \E i \in Boundaries(hay) :
                   /\ out[k][1] = Offset(hay, i)
                   /\ \E j \in Boundaries(hay) : RootSuffix(i, j)
                   /\ out[k][2] = Offset(hay, LongestEnd(i))

\* Two ranges were emitted, and the first one has a shorter end that the
\* root and the suffix accept as well.
C1_Witness ==
    /\ Matching
    /\ Len(out) >= 2
    /\ \E j \in Boundaries(hay) : RootSuffix(0, j) /\ Offset(hay, j) < out[1][2]
    /\ out[1][1] = 0

\* C2: consecutive ranges satisfy start_{i+1} >= max(end_i, start_i + 1).
C2_Progress ==
    Matching =>
        \A k \in 2 .. Len(out) :
            out[k][1] >= Max(out[k - 1][2], out[k - 1][1] + 1)

\* A zero-width range was followed by another range, and a range of two
\* bytes or more was followed by another one.
C2_Witness ==
    /\ Matching
    /\ Len(out) >= 3
    /\ \E k \in 1 .. Len(out) - 1 : out[k][1] = out[k][2]
    /\ \E k \in 1 .. Len(out) - 1 : out[k][2] >= out[k][1] + 2

\* C3: no match is skipped: what has been emitted is at every moment the
\* beginning of the leftmost-longest non-overlapping matches of the
\* haystack, and is all of them once next() has returned None.
C3_NoMatchSkipped ==
    Matching =>
        /\ IsPrefixOf(out, LeftmostLongest(0, 0))
        /\ ret = RetNone => out = LeftmostLongest(0, 0)

\* An unanchored search ended with two matches, the second one starting
\* after the end of the first: the boundary between them was tried and
\* passed over.
C3_Witness ==
    /\ Matching
    /\ Unanchored
    /\ ret = RetNone
    /\ Len(out) = 2
    /\ out[2][1] > out[1][2]

\* C4: every emitted range is a genuine match: its start and its end are
\* byte offsets of token boundaries i <= j of the haystack, the prefix
\* automaton accepts the tokens before i, the root automaton of the class
\* at i the tokens between i and j, the suffix automaton of the class at j
\* the tokens after j.
C4_GenuineMatch ==
    Matching =>
        \A k \in 1 .. Len(out) :
            \E i, j \in Boundaries(hay) :
                /\ out[k] = <<Offset(hay, i), Offset(hay, j)>>
                /\ i <= j
                /\ IsMatch(i, j)

\* A range was emitted that starts after a two-byte token, is not empty and
\* ends before the end of the haystack.
C4_Witness ==
    /\ Matching
    /\ \E k \in 1 .. Len(out) :
           /\ out[k][1] >= 2
           /\ out[k][2] > out[k][1]
           /\ out[k][2] < Offset(hay, Len(hay))
    /\ hay[1] \in WideTokens

\* C5: with both affixes Anchor, the only range ever emitted is
\* 0..len(haystack), and it is emitted exactly when the root automaton
\* accepts the whole haystack.
C5_Anchored ==
    (Matching /\ Anchored) =>
        LET whole == <<0, Offset(hay, Len(hay))>>
            accepted == /\ MapContains(aut.root, DefaultClass)
                        /\ Accepts(aut.root[DefaultClass], hay)
        IN /\ out \in {<<>>, <<whole>>}
           /\ out = <<whole>> => accepted
           /\ ret = RetNone => (accepted <=> out = <<whole>>)

\* An anchored search over three tokens ended with the whole haystack as
\* its single match.
C5_Witness ==
    /\ Matching
    /\ Anchored
    /\ ret = RetNone
    /\ Len(hay) = 3
    /\ out = << <<0, Offset(hay, 3)>> >>

\* An anchored search over a haystack the root does not accept ended with
\* no match.
C5_WitnessNone ==
    /\ Matching
    /\ Anchored
    /\ ret = RetNone
    /\ Len(hay) = 3
    /\ out = <<>>

\* The zero-width range at every token boundary of the haystack.
ZeroWidthEverywhere(h) == [k \in 1 .. Len(h) + 1 |-> <<Offset(h, k - 1), Offset(h, k - 1)>>]

\* C6, as stated: unanchored, with a root alternation that has no branch,
\* the search yields the zero-width range at every token boundary.
C6_EmptyAlternation ==
    (Matching /\ Unanchored /\ ire.root = <<>> /\ ret = RetNone) =>
        out = ZeroWidthEverywhere(hay)

\* C6, amended: unanchored, with a root alternation whose only branch is
\* the empty concatenation, the search yields the zero-width range at every
\* token boundary, in ascending order, and nothing else.
C6_EmptyConcatenation ==
    (Matching /\ Unanchored /\ ire.root = << <<>> >>) =>
        /\ IsPrefixOf(out, ZeroWidthEverywhere(hay))
        /\ ret = RetNone => out = ZeroWidthEverywhere(hay)

\* The search for the empty concatenation ended over three tokens, one of
\* them two bytes wide, with four ranges.
C6_Witness ==
    /\ Matching
    /\ Unanchored
    /\ ire.root = << <<>> >>
    /\ ret = RetNone
    /\ Len(hay) = 3
    /\ \E k \in 1 .. 3 : hay[k] \in WideTokens
    /\ Len(out) = 4

\* A bound on the loop iterations next() still runs before it returns None:
\* two for every token left (one that emits, one that consumes the token),
\* and one for a match that may still be emitted at the current position.
Remaining == 2 * Len(rest) + (IF position >= min THEN 1 ELSE 0)

\* C7: every loop iteration of next() either returns None or, as long as
\* None has not been returned, lowers the bound Remaining, so that repeated
\* calls end up returning None; and once None has been returned, every later
\* call returns None.
C7_Terminates ==
    [][Matching => (ret' = RetNone \/ (ret # RetNone /\ Remaining' < Remaining))]_vars

\* next() was called again after it had returned None, at the end of a
\* search that emitted a match.
C7_Witness == Matching /\ ret = RetNone /\ recalled /\ Len(out) >= 1 /\ Len(hay) = 3

(***************************************************************************)
(* DFA: the initial state, the final states and the transition table, a    *)
(* set of (source, label, target) with one target per source and label;    *)
(* keys holds the states that have an entry in the table. A label of a     *)
(* determinized automaton is a range <<lo, hi>> of tokens.                 *)
(***************************************************************************)
\* DFA::new
NewDFA(initial_state) ==
    [initial_state |-> initial_state, final_states |-> {}, keys |-> {},
     transitions |-> {}]

\* DFA::from_parts
FromParts(initial_state, final_states, keys, transitions) ==
    [initial_state |-> initial_state, final_states |-> final_states, keys |-> keys,
     transitions |-> transitions]

\* DFA::add: insert replaces the target the label had.
DfaAdd(d, source, label, target) ==
    [d EXCEPT !.keys = @ \cup {source},
              !.transitions = {x \in @ : ~(x[1] = source /\ x[2] = label)}
                              \cup {<<source, label, target>>}]

\* DFA::successors
DfaSuccessors(d, q) == {x[3] : x \in {y \in d.transitions : y[1] = q}}

RECURSIVE SelectStatesFrom(_, _, _)
\* DFA::select_states_from with the predicate |_| true: the depth-first
\* visit, its pending states held in stack.
SelectStatesFrom(d, visited, stack) ==
    IF stack = {} THEN visited
    ELSE LET q == CHOOSE x \in stack : TRUE
         IN IF q \in visited THEN SelectStatesFrom(d, visited, stack \ {q})
            ELSE SelectStatesFrom(d, visited \cup {q},
                                  (stack \ {q}) \cup DfaSuccessors(d, q))

\* DFA::states
DfaStates(d) == SelectStatesFrom(d, {}, {d.initial_state})

\* DFA::is_final_state
DfaIsFinalState(d, q) == q \in d.final_states

\* DFA::partition called with |q| is_final_state(q), its values: the final
\* and the non-final states reachable from the initial state.
PartitionByFinal(d) ==
    { {q \in DfaStates(d) : DfaIsFinalState(d, q)},
      {q \in DfaStates(d) : ~DfaIsFinalState(d, q)} } \ { {} }

(***************************************************************************)
(* NFA::determinize.                                                       *)
(***************************************************************************)
RECURSIVE ModuloEpsilonLoop(_, _, _)
\* NFA::modulo_epsilon_state: the loop over the stack.
ModuloEpsilonLoop(a, states, stack) ==
    IF stack = {} THEN states
    ELSE LET q == CHOOSE x \in stack : TRUE
         IN IF q \in states THEN ModuloEpsilonLoop(a, states, stack \ {q})
            ELSE ModuloEpsilonLoop(a, states \cup {q},
                                   (stack \ {q}) \cup EpsilonTargets(a, q))

\* modulo_epsilon_state that follows no epsilon-transition.
ModuloEpsilonStateShallow(a, qs) == qs

\* NFA::modulo_epsilon_state
ModuloEpsilonState(a, qs) == ModuloEpsilonLoop(a, {}, qs)

\* determinize_transitions_for, the value the RangeMap holds at a token
\* after every update: the epsilon-closed targets of the transitions of the
\* subset whose label holds the token.
TargetStatesAt(a, states, token) ==
    UNION { ModuloEpsilonState(a, {r}) :
              r \in UNION {TokenTargets(a, q, token) : q \in states} }

\* determinize_transitions_for that inserts every range of every label as it
\* stands, with the targets of that label alone: ranges that overlap are
\* neither split nor their targets united.
DeterminizeTransitionsForUnsplit(a, states) ==
    LET labels ==
            {l \in {x[2] : x \in {y \in a.transitions : y[1] \in states}} :
                IsSome(l) /\ Unwrap(l) # {}}
        Lo(l) == CHOOSE t \in Unwrap(l) : \A u \in Unwrap(l) : t <= u
        Hi(l) == CHOOSE t \in Unwrap(l) : \A u \in Unwrap(l) : u <= t
        lows == SortedSeq({Lo(l) : l \in labels})
    IN [i \in 1 .. Len(lows) |->
           LET l == CHOOSE x \in labels : Lo(x) = lows[i]
           IN <<<<Lo(l), Hi(l)>>,
                UNION { ModuloEpsilonState(a, {x[3]}) :
                          x \in {y \in a.transitions : y[1] \in states /\ y[2] = l} }>>]

\* NFA::determinize_transitions_for: the entries of the RangeMap, one per
\* maximal range of tokens that holds one value, in ascending order.
DeterminizeTransitionsFor(a, states) ==
    LET at == [t \in Tokens |-> TargetStatesAt(a, states, t)]
        SameValue(lo, hi) == \A t \in lo .. hi : at[t] = at[lo]
        entries ==
            { <<lo, hi>> \in Tokens \X Tokens :
                /\ lo <= hi
                /\ at[lo] # {}
                /\ SameValue(lo, hi)
                /\ (lo - 1) \in Tokens => at[lo - 1] # at[lo]
                /\ (hi + 1) \in Tokens => at[hi + 1] # at[lo] }
        lows == SortedSeq({e[1] : e \in entries})
    IN [i \in 1 .. Len(lows) |->
           LET e == CHOOSE x \in entries : x[1] = lows[i]
           IN <<e, at[e[1]]>>]

\* The closure build_dfa hands to determinize: it numbers the subsets in the
\* order it first sees them, map holding the subsets seen.
NameOf(map, det_q) ==
    IF \E i \in 1 .. Len(map) : map[i] = det_q
    THEN [map |-> map, r |-> (CHOOSE i \in 1 .. Len(map) : map[i] = det_q) - 1]
    ELSE [map |-> Append(map, det_q), r |-> Len(map)]

RECURSIVE DeterminizeEntries(_, _, _, _, _)
\* NFA::determinize: the loop over the entries of one subset, which names
\* every target, records the transition and pushes the target.
DeterminizeEntries(map, r, entries, transitions, stack) ==
    IF entries = <<>> THEN [map |-> map, transitions |-> transitions, stack |-> stack]
    ELSE LET named == NameOf(map, Head(entries)[2])
         IN DeterminizeEntries(named.map, r, Tail(entries),
                               transitions \cup {<<r, Head(entries)[1], named.r>>},
                               Append(stack, Head(entries)[2]))

RECURSIVE DeterminizeLoop(_, _, _, _, _, _, _)
\* NFA::determinize: the loop over the stack of subsets.
DeterminizeLoop(a, map, stack, visited_states, final_states, keys, transitions) ==
    IF stack = <<>>
    THEN [map |-> map, final_states |-> final_states, keys |-> keys,
          transitions |-> transitions]
    ELSE LET det_q == stack[Len(stack)]
             popped == SubSeq(stack, 1, Len(stack) - 1)
             named == NameOf(map, det_q)
         IN IF named.r \in visited_states
            THEN DeterminizeLoop(a, named.map, popped, visited_states, final_states,
                                 keys, transitions)
            ELSE LET Rest(e) ==
                         DeterminizeLoop(
                             a, e.map, e.stack, visited_states \cup {named.r},
                             IF \E q \in det_q : q \in a.final_states
                             THEN final_states \cup {named.r} ELSE final_states,
                             keys \cup {named.r}, e.transitions)
                 IN Rest(DeterminizeEntries(named.map, named.r,
                                            DeterminizeTransitionsFor(a, det_q),
                                            transitions, popped))

\* NFA::determinize
Determinize(a) ==
    LET initial_state == ModuloEpsilonState(a, a.initial_states)
        Parts(r) ==
            FromParts(NameOf(r.map, initial_state).r, r.final_states, r.keys,
                      r.transitions)
    IN Parts(DeterminizeLoop(a, <<>>, <<initial_state>>, {}, {}, {}, {}))

\* The subsets of NFA states the states of Determinize(a) name: state r
\* names the subset at r + 1.
SubsetNames(a) ==
    DeterminizeLoop(a, <<>>, <<ModuloEpsilonState(a, a.initial_states)>>, {}, {}, {},
                    {}).map

(***************************************************************************)
(* DFA::minimize.                                                          *)
(***************************************************************************)
RECURSIVE SeqLess(_, _)
\* The order of BTreeSet<&Q> values: lexicographic over the ascending
\* elements.
SeqLess(s, t) ==
    IF t = <<>> THEN FALSE
    ELSE IF s = <<>> THEN TRUE
    ELSE IF Head(s) # Head(t) THEN Head(s) < Head(t)
    ELSE SeqLess(Tail(s), Tail(t))

\* BTreeSet::pop_first on a set of blocks
First(blocks) ==
    CHOOSE a \in blocks :
        \A b \in blocks \ {a} : SeqLess(SortedSeq(a), SortedSeq(b))

RECURSIVE BlocksInOrder(_)
\* The iteration order of a BTreeSet of blocks.
BlocksInOrder(blocks) ==
    IF blocks = {} THEN <<>>
    ELSE <<First(blocks)>> \o BlocksInOrder(blocks \ {First(blocks)})

\* The order of the labels <<lo, hi>> of a transition table.
LabelLess(l, m) == l[1] < m[1] \/ (l[1] = m[1] /\ l[2] < m[2])

RECURSIVE LabelsInOrder(_, _)
\* The values of sources_by_label are visited in the order of a HashMap,
\* which the program does not choose: ascending or descending here.
LabelsInOrder(labels, descending) ==
    IF labels = {} THEN <<>>
    ELSE LET l == CHOOSE x \in labels :
                      \A y \in labels \ {x} :
                          IF descending THEN LabelLess(y, x) ELSE LabelLess(x, y)
         IN <<l>> \o LabelsInOrder(labels \ {l}, descending)

\* DFA::minimize: sources_by_label[label] for the block a.
SourcesByLabel(d, a, label) ==
    {x[1] : x \in {y \in d.transitions : y[2] = label /\ y[3] \in a}}

RECURSIVE SplitBlocksKeepWorking(_, _, _, _)
\* The loop over the blocks with the update of working left out: a block
\* that is split is replaced in partition only.
SplitBlocksKeepWorking(ys, sources, partition, working) ==
    IF ys = <<>> THEN [partition |-> partition, working |-> working]
    ELSE LET y == Head(ys)
             intersection == y \cap sources
             difference == y \ sources
         IN IF intersection # {} /\ difference # {}
            THEN SplitBlocksKeepWorking(
                     Tail(ys), sources,
                     (partition \ {y}) \cup {intersection, difference}, working)
            ELSE SplitBlocksKeepWorking(Tail(ys), sources, partition, working)

RECURSIVE SplitBlocks(_, _, _, _)
\* DFA::minimize: the loop over the blocks y of a clone of the partition,
\* for one set of sources.
SplitBlocks(ys, sources, partition, working) ==
    IF ys = <<>> THEN [partition |-> partition, working |-> working]
    ELSE LET y == Head(ys)
             intersection == y \cap sources
             difference == y \ sources
         IN IF intersection # {} /\ difference # {}
            THEN SplitBlocks(
                     Tail(ys), sources,
                     (partition \ {y}) \cup {intersection, difference},
                     IF y \in working
                     THEN (working \ {y}) \cup {intersection, difference}
                     ELSE IF Cardinality(intersection) <= Cardinality(difference)
                          THEN working \cup {intersection}
                          ELSE working \cup {difference})
            ELSE SplitBlocks(Tail(ys), sources, partition, working)

RECURSIVE SplitByLabels(_, _, _, _, _)
\* DFA::minimize: the loop over the values of sources_by_label.
SplitByLabels(d, a, labels, partition, working) ==
    IF labels = <<>> THEN [partition |-> partition, working |-> working]
    ELSE LET Rest(s) == SplitByLabels(d, a, Tail(labels), s.partition, s.working)
         IN Rest(SplitBlocks(BlocksInOrder(partition),
                             SourcesByLabel(d, a, Head(labels)), partition, working))

RECURSIVE Refine(_, _, _, _)
\* DFA::minimize: the loop that pops the first block of working.
Refine(d, partition, working, descending) ==
    IF working = {} THEN partition
    ELSE LET a == First(working)
             labels == {x[2] : x \in {y \in d.transitions : y[3] \in a}}
             Rest(s) == Refine(d, s.partition, s.working, descending)
         IN Rest(SplitByLabels(d, a, LabelsInOrder(labels, descending), partition,
                               working \ {a}))

\* The order in which a transition table is visited: by source, then label.
TransitionLess(x, y) == x[1] < y[1] \/ (x[1] = y[1] /\ LabelLess(x[2], y[2]))

RECURSIVE TransitionsInOrder(_)
TransitionsInOrder(transitions) ==
    IF transitions = {} THEN <<>>
    ELSE LET x == CHOOSE t \in transitions :
                      \A u \in transitions \ {t} : TransitionLess(t, u)
         IN <<x>> \o TransitionsInOrder(transitions \ {x})

\* DFA::minimize: map[q], the block of the final partition that holds q.
BlockOf(partition, q) == CHOOSE member \in partition : q \in member

RECURSIVE AddMapped(_, _, _)
\* DFA::minimize: the loop that adds every transition between the blocks of
\* its source and its target. Indexing map with a state no block holds
\* panics: ok is FALSE from then on.
AddMapped(partition, list, result) ==
    IF list = <<>> \/ ~result.ok THEN result
    ELSE LET x == Head(list)
         IN IF x[1] \in UNION partition /\ x[3] \in UNION partition
            THEN AddMapped(partition, Tail(list),
                           [ok |-> TRUE,
                            d |-> DfaAdd(result.d, BlockOf(partition, x[1]), x[2],
                                         BlockOf(partition, x[3]))])
            ELSE [ok |-> FALSE, d |-> result.d]

\* DFA::minimize: one iteration of the loop that pops the first block of
\* working.
RefineStep(d, partition, working, descending) ==
    LET a == First(working)
        labels == {x[2] : x \in {y \in d.transitions : y[3] \in a}}
    IN SplitByLabels(d, a, LabelsInOrder(labels, descending), partition,
                     working \ {a})

\* DFA::minimize: what follows the loop, map being built from partition.
Lift(d, partition) ==
    IF d.initial_state \in UNION partition
    THEN AddMapped(partition, TransitionsInOrder(d.transitions),
                   [ok |-> TRUE, d |-> NewDFA(BlockOf(partition, d.initial_state))])
    ELSE [ok |-> FALSE, d |-> NewDFA({})]

\* DFA::minimize
Minimize(d, seed, descending) ==
    LET partition == Refine(d, seed, seed, descending)
    IN IF d.initial_state \in UNION partition
       THEN AddMapped(partition, TransitionsInOrder(d.transitions),
                      [ok |-> TRUE, d |-> NewDFA(BlockOf(partition, d.initial_state))])
       ELSE [ok |-> FALSE, d |-> NewDFA({})]

(***************************************************************************)
(* Automata built with the construction operations, then determinized and  *)
(* minimized.                                                              *)
(***************************************************************************)
NfaStates == {0, 1, 2}

InitialChoices == {0, 1}

FinalChoices == {1, 2}

\* Epsilon and two range sets that overlap.
Labels == {None, Some({0, 1}), Some({1, 2})}

AutInit ==
    /\ phase = "automata"
    /\ ire = <<>> /\ aut = <<>>
    /\ hay = <<>> /\ rest = <<>> /\ prefix_state = None /\ class = DefaultClass
    /\ position = 0 /\ min = 0 /\ out = <<>> /\ ret = Running /\ recalled = FALSE
    /\ nfa = NewNFA /\ dfa = <<>> /\ mdfa = <<>> /\ aphase = "building"
    /\ state_builder = <<>> /\ sessions = <<>>

\* NFA::add
NfaAdd(source, label, target) ==
    /\ aphase = "building"
    /\ Cardinality(nfa.transitions) < MaxAdds
    /\ nfa' = Add(nfa, source, label, target)
    /\ UNCHANGED <<matchVars, dfa, mdfa, aphase>>

\* NFA::add_initial_state
NfaAddInitialState(q) ==
    /\ aphase = "building"
    /\ nfa' = AddInitialState(nfa, q)
    /\ UNCHANGED <<matchVars, dfa, mdfa, aphase>>

\* NFA::add_final_state
NfaAddFinalState(q) ==
    /\ aphase = "building"
    /\ nfa' = AddFinalState(nfa, q)
    /\ UNCHANGED <<matchVars, dfa, mdfa, aphase>>

\* NFA::determinize
DeterminizeAction ==
    /\ aphase = "building"
    /\ dfa' = Determinize(nfa)
    /\ aphase' = "determinized"
    /\ UNCHANGED <<matchVars, nfa, mdfa>>

\* DFA::minimize, called with the partition into final and non-final states
MinimizeAction ==
    /\ aphase = "determinized"
    /\ \E descending \in BOOLEAN :
           mdfa' = Minimize(dfa, PartitionByFinal(dfa), descending)
    /\ aphase' = "minimized"
    /\ UNCHANGED <<matchVars, nfa, dfa>>

AutNext ==
    \/ \E source \in NfaStates, label \in Labels, target \in NfaStates :
           NfaAdd(source, label, target)
    \/ \E q \in InitialChoices : NfaAddInitialState(q)
    \/ \E q \in FinalChoices : NfaAddFinalState(q)
    \/ DeterminizeAction
    \/ MinimizeAction

AutSpec == AutInit /\ [][AutNext]_vars

(***************************************************************************)
(* Acceptance by a DFA: the run that follows, for every token, the         *)
(* transition whose range holds the token.                                 *)
(***************************************************************************)
\* The states a DFA is in after one more token (none when the run ends).
DfaMove(d, Q, token) ==
    {x[3] : x \in {y \in d.transitions :
                     y[1] \in Q /\ y[2][1] <= token /\ token <= y[2][2]}}

RECURSIVE DfaReached(_, _, _)
DfaReached(d, Q, w) ==
    IF w = <<>> THEN Q ELSE DfaReached(d, DfaMove(d, Q, Head(w)), Tail(w))

DfaAccepts(d, w) == DfaReached(d, {d.initial_state}, w) \cap d.final_states # {}

RECURSIVE NfaDfaAgree(_, _, _, _, _)
\* Every sequence of at most k tokens leads the NFA a from the states S to a
\* final state iff it leads the DFA d from Q to a final state.
NfaDfaAgree(a, S, d, Q, k) ==
    /\ (S \cap a.final_states # {}) <=> (Q \cap d.final_states # {})
    /\ k > 0 =>
           \A t \in Tokens :
               NfaDfaAgree(a, Closure(a, UNION {TokenTargets(a, q, t) : q \in S}),
                           d, DfaMove(d, Q, t), k - 1)

RECURSIVE DfaDfaAgree(_, _, _, _, _)
\* Every sequence of at most k tokens leads the DFA d from P to a final
\* state iff it leads the DFA e from Q to a final state.
DfaDfaAgree(d, P, e, Q, k) ==
    /\ (P \cap d.final_states # {}) <=> (Q \cap e.final_states # {})
    /\ k > 0 =>
           \A t \in Tokens :
               DfaDfaAgree(d, DfaMove(d, P, t), e, DfaMove(e, Q, t), k - 1)

Determinized == aphase = "determinized"

Minimized == aphase = "minimized"

\* C9: the DFA determinize returns accepts a token sequence iff the NFA
\* does; its initial state names the epsilon-closure of the initial states
\* of the NFA; a state of it is final iff the subset it names holds a final
\* state of the NFA; and no two states name the same subset.
C9_Determinize ==
    Determinized =>
        LET names == SubsetNames(nfa)
        IN /\ NfaDfaAgree(nfa, Closure(nfa, nfa.initial_states),
                          dfa, {dfa.initial_state}, MaxLen)
           /\ names[dfa.initial_state + 1] = Closure(nfa, nfa.initial_states)
           /\ \A r \in dfa.keys :
                  r \in dfa.final_states <=> names[r + 1] \cap nfa.final_states # {}
           /\ \A r1, r2 \in dfa.keys : names[r1 + 1] = names[r2 + 1] => r1 = r2

\* The NFA determinized has an epsilon-transition out of an initial state,
\* and accepts a word of two tokens; the DFA has a state that names a subset
\* of two states or more.
C9_Witness ==
    /\ Determinized
    /\ \E x \in nfa.transitions : x[2] = None /\ x[1] \in nfa.initial_states /\ x[1] # x[3]
    /\ \E w \in Haystacks : Len(w) >= 2 /\ Accepts(nfa, w) /\ DfaAccepts(dfa, w)
    /\ \E r \in dfa.keys : Cardinality(SubsetNames(nfa)[r + 1]) >= 2

\* The NFA determinized has two transitions out of one initial state whose
\* range sets overlap and whose targets differ, one of them final.
C9_WitnessOverlap ==
    /\ Determinized
    /\ \E x, y \in nfa.transitions :
           /\ x[1] = y[1] /\ x[3] # y[3]
           /\ x[2] = Some({0, 1}) /\ y[2] = Some({1, 2})
           /\ x[3] \in nfa.final_states /\ y[3] \notin nfa.final_states
           /\ x[1] \in nfa.initial_states

\* The tokens of the label of a transition of a DFA.
RangeTokens(range) == {t \in Tokens : range[1] <= t /\ t <= range[2]}

\* The tokens some transition of the NFA carries out of a state of the subset.
CarriedOutOf(a, subset) ==
    {t \in Tokens : \E q \in subset : TokenTargets(a, q, t) # {}}

\* C30: in the DFA determinize returns, the labels out of a state are ranges
\* that hold a token and no two of them share one, so that a token selects
\* one successor at most; a token is under a label out of a state iff some
\* transition of the NFA carries it out of the subset the state names, and
\* the successor it selects names the epsilon-closure of the targets of
\* those transitions.
C30_DisjointLabels ==
    Determinized =>
        LET names == SubsetNames(nfa)
        IN \A r \in dfa.keys :
               LET out_r == {x \in dfa.transitions : x[1] = r}
               IN /\ \A x \in out_r :
                         /\ x[2][1] <= x[2][2]
                         /\ x[2][1] \in Tokens /\ x[2][2] \in Tokens
                  /\ \A x, y \in out_r :
                         x # y => RangeTokens(x[2]) \cap RangeTokens(y[2]) = {}
                  /\ \A t \in Tokens : Cardinality(DfaMove(dfa, {r}, t)) <= 1
                  /\ \A t \in Tokens :
                         t \in CarriedOutOf(nfa, names[r + 1])
                             <=> \E x \in out_r : t \in RangeTokens(x[2])
                  /\ \A x \in out_r : \A t \in RangeTokens(x[2]) :
                         names[x[3] + 1] = Reached(nfa, names[r + 1], <<t>>)

\* The DFA has a state whose subset has two transitions of the NFA with the
\* range sets {0, 1} and {1, 2} and different targets: the state has the
\* three labels 0, 1 and 2, with three successors.
C30_Witness ==
    /\ Determinized
    /\ \E r \in dfa.keys :
           /\ \E x, y \in nfa.transitions :
                  /\ x[1] \in SubsetNames(nfa)[r + 1]
                  /\ y[1] \in SubsetNames(nfa)[r + 1]
                  /\ x[2] = Some({0, 1}) /\ y[2] = Some({1, 2}) /\ x[3] # y[3]
           /\ {x[2] : x \in {y \in dfa.transitions : y[1] = r}}
                  = {<<0, 0>>, <<1, 1>>, <<2, 2>>}
           /\ Cardinality(DfaSuccessors(dfa, r)) = 3

\* C10: the DFA minimize returns, called with the partition into final and
\* non-final states, has no more states than the DFA it was given and
\* accepts the same token sequences.
C10_Minimize ==
    Minimized =>
        /\ mdfa.ok
        /\ Cardinality(DfaStates(mdfa.d)) <= Cardinality(DfaStates(dfa))
        /\ DfaDfaAgree(dfa, {dfa.initial_state}, mdfa.d, {mdfa.d.initial_state}, MaxLen)

(***************************************************************************)
(* The language of a repetition, for alternations of token sequences.      *)
(***************************************************************************)
TokensOnly(alt) ==
    \A b \in 1 .. Len(alt) : \A x \in 1 .. Len(alt[b]) : alt[b][x].k = "token"

\* w is a word of the alternation alt.
InAlternation(alt, w) ==
    \E b \in 1 .. Len(alt) :
        Len(alt[b]) = Len(w) /\ \A x \in 1 .. Len(w) : w[x] \in alt[b][x].set

RECURSIVE Copies(_, _, _)
\* w is the concatenation of k words of alt.
Copies(alt, k, w) ==
    IF k = 0 THEN w = <<>>
    ELSE \E i \in 0 .. Len(w) :
             InAlternation(alt, Slice(w, 0, i)) /\ Copies(alt, k - 1, Slice(w, i, Len(w)))

\* w is the concatenation of k words of alt for a k the repetition allows.
InRepeat(alt, rmin, rmax, w) ==
    \E k \in rmin .. (IF IsSome(rmax) THEN Unwrap(rmax) ELSE rmin + Len(w)) :
        Copies(alt, k, w)

\* The root is a single repetition, with min <= max if it has a max, of an
\* alternation of token sequences, and was compiled.
RepeatCompiled ==
    /\ phase # "ir"
    /\ aut.ok
    /\ MapContains(aut.root, DefaultClass)
    /\ Len(ire.root) = 1
    /\ Len(ire.root[1]) = 1
    /\ ire.root[1][1].k = "repeat"
    /\ TokensOnly(ire.root[1][1].alt)
    /\ IsSome(ire.root[1][1].max) => ire.root[1][1].min <= Unwrap(ire.root[1][1].max)

\* C8: the NFA compiled for Atom::Repeat(alt, {min, max}) accepts exactly
\* the concatenations of k words of alt with min <= k <= max, or min <= k
\* when max is None.
C8_RepeatLanguage ==
    RepeatCompiled =>
        \A w \in Haystacks :
            Accepts(aut.root[DefaultClass], w)
                <=> InRepeat(ire.root[1][1].alt, ire.root[1][1].min,
                             ire.root[1][1].max, w)

(***************************************************************************)
(* The shape of the DFA minimize returns.                                  *)
(***************************************************************************)
\* The blocks of the partition minimize ends with.
RefinedPartition(descending) ==
    Refine(dfa, PartitionByFinal(dfa), PartitionByFinal(dfa), descending)

\* One state per block, the initial state the block of the old initial
\* state, every old transition lifted to the blocks of its ends and no
\* other transition.
LiftedTo(partition) ==
    /\ DfaStates(mdfa.d) = partition
    /\ mdfa.d.initial_state = BlockOf(partition, dfa.initial_state)
    /\ mdfa.d.transitions =
           { <<BlockOf(partition, x[1]), x[2], BlockOf(partition, x[3])>> :
                 x \in dfa.transitions }

\* The final states are the blocks that hold an old final state.
FinalsLiftedTo(partition) ==
    mdfa.d.final_states = {b \in partition : b \cap dfa.final_states # {}}

\* C11: the DFA minimize returns has one state per block of the refined
\* partition, its initial state is the block of the old initial state, its
\* final states are the blocks that hold an old final state, and every old
\* transition appears between the blocks of its ends.
C11_MinimizeBlocks ==
    Minimized =>
        /\ mdfa.ok
        /\ \E descending \in BOOLEAN :
               /\ mdfa = Minimize(dfa, PartitionByFinal(dfa), descending)
               /\ LiftedTo(RefinedPartition(descending))
               /\ FinalsLiftedTo(RefinedPartition(descending))

(***************************************************************************)
(* IR fragments compiled on their own: build_nfa_from of an atom, a        *)
(* concatenation, an alternation or an affix, called with a fresh builder  *)
(* from a class c of a class model with n classes. ire holds the call      *)
(* [kind, n, c, node], aut what build_nfa_from returned.                   *)
(***************************************************************************)
\* The class models the fragments are compiled under.
ClassModels == {1, 2, 3}

\* Every Boundary of a class model: a table from class to Option<class>.
RECURSIVE BoundaryTables(_, _)
BoundaryTables(n, k) ==
    IF k = 0 THEN { <<>> }
    ELSE { Append(b, o) : b \in BoundaryTables(n, k - 1),
                          o \in {None} \cup {Some(x) : x \in Classes(n)} }

FragBoundaries(n) == {Boundary(b) : b \in BoundaryTables(n, n)}

\* The boundaries put in sequences: the one no class passes, the one that
\* sends every class to the last class, the one that keeps the class.
SomeBoundaries(n) ==
    { Boundary([k \in 1 .. n |-> None]),
      Boundary([k \in 1 .. n |-> Some(n - 1)]),
      Boundary([k \in 1 .. n |-> Some(k - 1)]) }

FragAtoms(n) ==
    { TokA, TokB, Token({0, 2}), Token(AllTokens),
      Star(Alt1(TokA)), Repeat(Alt1(Token({1, 2})), 1, Some(1)) }
    \cup SomeBoundaries(n)

FragConcatenations(n) ==
    { <<>> } \cup { <<x>> : x \in FragAtoms(n) }
    \cup { <<x, y>> : x, y \in FragAtoms(n) }
    \cup { <<Token(AllTokens), x, y>> : x, y \in FragAtoms(n) }

FragBranches(n) ==
    { <<>>, <<TokA>>, <<TokB>>, <<TokA, TokB>>, <<Token(AllTokens)>>,
      <<Star(Alt1(TokA))>>, <<Token({0, 2}), TokB>>,
      <<Boundary([k \in 1 .. n |-> Some(n - 1)])>>,
      <<Boundary([k \in 1 .. n |-> None])>> }

FragAlternations(n) ==
    { <<>> } \cup { <<x>> : x \in FragBranches(n) }
    \cup { <<x, y>> : x, y \in FragBranches(n) }
    \cup { <<x, <<TokB>>, y>> : x, y \in FragBranches(n) }

FragAffixes(n) ==
    {AffixAny, AffixAnchor} \cup {AffixAlternation(alt) : alt \in FragAlternations(n)}

FragCalls(kind, n, nodes) ==
    { [kind |-> kind, n |-> n, c |-> c, node |-> node] :
          c \in Classes(n), node \in nodes }

FragInputs ==
    UNION { FragCalls("atom", n, FragAtoms(n) \cup FragBoundaries(n))
            \cup FragCalls("concatenation", n, FragConcatenations(n))
            \cup FragCalls("alternation", n, FragAlternations(n))
            \cup FragCalls("affix", n, FragAffixes(n)) :
                n \in ClassModels }

FragInit ==
    /\ phase = "fragment"
    /\ ire \in FragInputs
    /\ aut = <<>>
    /\ hay = <<>> /\ rest = <<>> /\ prefix_state = None /\ class = DefaultClass
    /\ position = 0 /\ min = 0 /\ out = <<>> /\ ret = Running /\ recalled = FALSE
    /\ InitAut

\* Atom::build_nfa_from
AtomBuildNfaFrom ==
    /\ phase = "fragment"
    /\ ire.kind = "atom"
    /\ aut' = BuildAtom(NewBuilder(ire.n, DefaultLimit), ire.node, ire.c)
    /\ phase' = "built"
    /\ UNCHANGED <<ire, hay, rest, prefix_state, class, position, min, out, ret,
                   recalled, autVars>>

\* Concatenation::build_nfa_from
ConcatenationBuildNfaFrom ==
    /\ phase = "fragment"
    /\ ire.kind = "concatenation"
    /\ aut' = BuildConcatenation(NewBuilder(ire.n, DefaultLimit), ire.node, ire.c)
    /\ phase' = "built"
    /\ UNCHANGED <<ire, hay, rest, prefix_state, class, position, min, out, ret,
                   recalled, autVars>>

\* Alternation::build_nfa_from
AlternationBuildNfaFrom ==
    /\ phase = "fragment"
    /\ ire.kind = "alternation"
    /\ aut' = BuildAlternation(NewBuilder(ire.n, DefaultLimit), ire.node, ire.c)
    /\ phase' = "built"
    /\ UNCHANGED <<ire, hay, rest, prefix_state, class, position, min, out, ret,
                   recalled, autVars>>

\* BuildNFA::build_nfa of an Affix
AffixBuildNfa ==
    /\ phase = "fragment"
    /\ ire.kind = "affix"
    /\ aut' = BuildNfaAffix(NewBuilder(ire.n, DefaultLimit), ire.node, ire.c)
    /\ phase' = "built"
    /\ UNCHANGED <<ire, hay, rest, prefix_state, class, position, min, out, ret,
                   recalled, autVars>>

FragNext ==
    \/ AtomBuildNfaFrom
    \/ ConcatenationBuildNfaFrom
    \/ AlternationBuildNfaFrom
    \/ AffixBuildNfa

FragSpec == FragInit /\ [][FragNext]_vars

\* A fragment of the given kind has been built.
Built(kind) == phase = "built" /\ ire.kind = kind

(***************************************************************************)
(* What a built fragment accepts: the pairs (w, c2) such that reading w    *)
(* from the entry state reaches the exit state of class c2.                *)
(***************************************************************************)
FragRel(r) ==
    { x \in Haystacks \X DOMAIN r.map :
          r.map[x[2]] \in Reached(r.ctx.nfa, Closure(r.ctx.nfa, {r.q}), x[1]) }

\* Every exit state was allocated in the class it is the exit of.
ExitsInClass(r) == \A c2 \in DOMAIN r.map : ClassOf(r.ctx, r.map[c2]) = c2

AtomRel(n, atom, c) == FragRel(BuildAtom(NewBuilder(n, DefaultLimit), atom, c))

\* The words of rel followed by the words of next(c2), c2 the class the
\* word of rel ends in, as far as they fit the longest word tried.
Compose(rel, next(_)) ==
    UNION { { <<x[1] \o y[1], y[2]>> :
                  y \in {z \in next(x[2]) : Len(x[1]) + Len(z[1]) <= MaxLen} } :
            x \in rel }

RECURSIVE ConcatRel(_, _, _)
\* The words w0 .. wn-1 concatenated, each wi accepted by the atom xi
\* compiled from the class reached after the previous atoms.
ConcatRel(n, list, rel) ==
    IF list = <<>> THEN rel
    ELSE LET next(c) == AtomRel(n, Head(list), c)
         IN ConcatRel(n, Tail(list), Compose(rel, next))

\* C12: a concatenation compiled from class c accepts, per exit class, the
\* concatenations of the words its atoms accept, each atom taken in the
\* class reached after the atoms before it; its exit map holds one state
\* per class, allocated in that class, and the epsilon-joins into it add no
\* word and lose none.
C12_Concatenation ==
    Built("concatenation") =>
        /\ ~aut.ctx.err
        /\ FragRel(aut) = ConcatRel(ire.n, ire.node, { <<<<>>, ire.c>> })
        /\ ExitsInClass(aut)

\* A concatenation was built whose exit of some class is a join state that
\* three frontier branches are epsilon-connected to, and a word of two
\* tokens reaches it.
C12_Witness ==
    /\ Built("concatenation")
    /\ \E c2 \in DOMAIN aut.map :
           /\ Cardinality({x \in aut.ctx.nfa.transitions :
                              x[2] = None /\ x[3] = aut.map[c2]}) >= 3
           /\ \E w \in Haystacks : Len(w) = 2 /\ <<w, c2>> \in FragRel(aut)

(***************************************************************************)
(* Alternation.                                                            *)
(***************************************************************************)
\* What build_nfa_from returns for one branch compiled on its own from c.
BranchBuilt(n, concat, c) == BuildConcatenation(NewBuilder(n, DefaultLimit), concat, c)

\* C13: an alternation with one branch or more, compiled from class c,
\* accepts per exit class the union of what its branches compiled from c
\* accept, and its exit map holds one exit state, allocated in that class,
\* for exactly the classes some branch has an exit of.
C13_Alternation ==
    (Built("alternation") /\ Len(ire.node) >= 1) =>
        /\ ~aut.ctx.err
        /\ FragRel(aut) =
               UNION { FragRel(BranchBuilt(ire.n, ire.node[k], ire.c)) :
                           k \in 1 .. Len(ire.node) }
        /\ DOMAIN aut.map =
               UNION { DOMAIN BranchBuilt(ire.n, ire.node[k], ire.c).map :
                           k \in 1 .. Len(ire.node) }
        /\ ExitsInClass(aut)

\* An alternation of three branches was built; two of them reach the exit
\* of one class with different words, and a third class is reached by one
\* branch only.
C13_Witness ==
    /\ Built("alternation")
    /\ Len(ire.node) = 3
    /\ \E c2 \in DOMAIN aut.map, j, k \in 1 .. 3, v, w \in Haystacks :
           /\ j # k /\ v # w
           /\ <<v, c2>> \in FragRel(BranchBuilt(ire.n, ire.node[j], ire.c))
           /\ <<w, c2>> \in FragRel(BranchBuilt(ire.n, ire.node[k], ire.c))
           /\ <<v, c2>> \in FragRel(aut) /\ <<w, c2>> \in FragRel(aut)
    /\ \E c3 \in DOMAIN aut.map :
           Cardinality({k \in 1 .. 3 :
                           c3 \in DOMAIN BranchBuilt(ire.n, ire.node[k], ire.c).map}) = 1

(***************************************************************************)
(* Boundary.                                                               *)
(***************************************************************************)
\* C14: a Boundary atom is zero-width: when apply(class) is Some(c2) the
\* built fragment accepts the empty word and nothing else, its exit of
\* class c2 being reached from its entry without reading a token; when
\* apply(class) is None the exit map is empty and nothing is accepted.
C14_BoundaryZeroWidth ==
    (Built("atom") /\ ire.node.k = "boundary") =>
        LET applied == BoundaryApply(ire.node.b, ire.c)
        IN IF IsSome(applied)
           THEN /\ DOMAIN aut.map = {Unwrap(applied)}
                /\ FragRel(aut) = { <<<<>>, Unwrap(applied)>> }
           ELSE /\ aut.map = EmptyMap
                /\ FragRel(aut) = {}

(***************************************************************************)
(* Affix.                                                                  *)
(***************************************************************************)
\* C15: Affix::Any compiles to an NFA that accepts every token sequence,
\* the empty one included; Affix::Anchor to an NFA that accepts the empty
\* sequence only; Affix::Alternation(a) to the NFA a compiles to.
C15_Affix ==
    Built("affix") =>
        /\ ~aut.ctx.err
        /\ ire.node = AffixAny => \A w \in Haystacks : Accepts(aut.nfa, w)
        /\ ire.node = AffixAnchor => \A w \in Haystacks : Accepts(aut.nfa, w) <=> w = <<>>
        /\ ire.node.k = "alternation" =>
               aut.nfa = BuildNfaAlternation(NewBuilder(ire.n, DefaultLimit),
                                             ire.node.alt, ire.c).nfa

\* Affix::Any was compiled under the three-class model from the last
\* class: its NFA has a final state in each class.
C15_Witness ==
    /\ Built("affix")
    /\ ire.node = AffixAny
    /\ ire.n = 3 /\ ire.c = 2
    /\ {ClassOf(aut.ctx, q) : q \in aut.nfa.final_states} = Classes(3)
    /\ Accepts(aut.nfa, <<0, 2, 1>>)

\* Affix::Anchor was compiled: its NFA refuses a word of one token.
C15_WitnessAnchor ==
    /\ Built("affix")
    /\ ire.node = AffixAnchor
    /\ ire.c = 1
    /\ aut.nfa.final_states # {}
    /\ ~Accepts(aut.nfa, <<1>>)

(***************************************************************************)
(* Automaton::contains run on an NFA, one call of initial_state,           *)
(* next_state or is_final_state at a time. nfa is the automaton, hay the   *)
(* token sequence, rest the tokens not read yet, prefix_state the visiting *)
(* state (None once initial_state or next_state has returned None), ret    *)
(* what contains returned.                                                 *)
(***************************************************************************)
\* The transitions the visited automata are made of: an epsilon-chain
\* 0 -> 1 -> 2, an epsilon-edge back, and range sets that overlap.
VisitTransitions ==
    { <<0, None, 1>>, <<1, None, 2>>, <<1, None, 0>>,
      <<0, Some({0, 1}), 1>>, <<0, Some({1, 2}), 2>>, <<2, Some({2}), 0>> }

VisitNFAs ==
    { [states |-> {x[1] : x \in ts} \cup {x[3] : x \in ts}, transitions |-> ts,
       initial_states |-> is, final_states |-> fs] :
          ts \in SUBSET VisitTransitions,
          is \in { {}, {0}, {0, 2} },
          fs \in { {}, {2}, {1, 2} } }

Contains(b) == <<"contains", b>>

VisitInit ==
    /\ phase = "nfa"
    /\ nfa \in VisitNFAs
    /\ hay \in Haystacks
    /\ rest = hay
    /\ prefix_state = None
    /\ ret = Running
    /\ ire = <<>> /\ aut = <<>> /\ class = DefaultClass
    /\ position = 0 /\ min = 0 /\ out = <<>> /\ recalled = FALSE
    /\ dfa = <<>> /\ mdfa = <<>> /\ aphase = "idle" /\ state_builder = <<>> /\ sessions = <<>>

\* Automaton::contains: initial_state() is Some(q)
VisitInitial ==
    /\ phase = "nfa"
    /\ IsSome(InitialState(nfa))
    /\ prefix_state' = InitialState(nfa)
    /\ phase' = "visiting"
    /\ UNCHANGED <<ire, aut, hay, rest, class, position, min, out, ret, recalled,
                   autVars>>

\* Automaton::contains: initial_state() is None, false is returned
VisitNoInitial ==
    /\ phase = "nfa"
    /\ ~IsSome(InitialState(nfa))
    /\ prefix_state' = None
    /\ ret' = Contains(FALSE)
    /\ phase' = "visited"
    /\ UNCHANGED <<ire, aut, hay, rest, class, position, min, out, recalled, autVars>>

\* Automaton::contains: next_state(q, token) is Some(r)
VisitNext ==
    /\ phase = "visiting"
    /\ rest # <<>>
    /\ IsSome(NextStateOf(nfa, Unwrap(prefix_state), Head(rest)))
    /\ prefix_state' = NextStateOf(nfa, Unwrap(prefix_state), Head(rest))
    /\ rest' = Tail(rest)
    /\ UNCHANGED <<phase, ire, aut, hay, class, position, min, out, ret, recalled,
                   autVars>>

\* Automaton::contains: next_state(q, token) is None, false is returned
VisitStuck ==
    /\ phase = "visiting"
    /\ rest # <<>>
    /\ ~IsSome(NextStateOf(nfa, Unwrap(prefix_state), Head(rest)))
    /\ prefix_state' = None
    /\ rest' = Tail(rest)
    /\ ret' = Contains(FALSE)
    /\ phase' = "visited"
    /\ UNCHANGED <<ire, aut, hay, class, position, min, out, recalled, autVars>>

\* Automaton::contains: the tokens are read, is_final_state(&q) is returned
VisitEnd ==
    /\ phase = "visiting"
    /\ rest = <<>>
    /\ ret' = Contains(IsFinalState(nfa, Unwrap(prefix_state)))
    /\ phase' = "visited"
    /\ UNCHANGED <<ire, aut, hay, rest, prefix_state, class, position, min, out,
                   recalled, autVars>>

VisitStep ==
    \/ VisitInitial
    \/ VisitNoInitial
    \/ VisitNext
    \/ VisitStuck
    \/ VisitEnd

VisitSpec == VisitInit /\ [][VisitStep]_vars

\* The tokens of hay read so far.
Read == SubSeq(hay, 1, Len(hay) - Len(rest))

\* The states some run of the NFA, epsilon-moves allowed, is in after the
\* tokens read so far.
ReachedSoFar == Reached(nfa, Closure(nfa, nfa.initial_states), Read)

\* C16: from initial_state() on, after next_state was applied once per
\* token read, the visiting set is the set of states reachable by reading
\* those tokens with epsilon-moves allowed; initial_state and next_state
\* return None exactly when that set is empty; is_final_state holds iff the
\* set holds a final state; contains(w) is true iff the NFA accepts w.
C16_Visiting ==
    phase \in {"visiting", "visited"} =>
        /\ IsSome(prefix_state) <=> ReachedSoFar # {}
        /\ IsSome(prefix_state) =>
               /\ Unwrap(prefix_state) = ReachedSoFar
               /\ IsFinalState(nfa, Unwrap(prefix_state))
                      <=> ReachedSoFar \cap nfa.final_states # {}
        /\ phase = "visited" => ret = Contains(Accepts(nfa, hay))

\* contains returned true for a word of three tokens, on an automaton with
\* an epsilon-chain of two edges; the visiting set holds three states.
C16_Witness ==
    /\ phase = "visited"
    /\ ret = Contains(TRUE)
    /\ Len(hay) = 3
    /\ {<<0, None, 1>>, <<1, None, 2>>} \subseteq nfa.transitions
    /\ Cardinality(Unwrap(prefix_state)) = 3

\* next_state returned None before the last token, and contains false.
C16_WitnessStuck ==
    /\ phase = "visited"
    /\ ret = Contains(FALSE)
    /\ prefix_state = None
    /\ Len(hay) = 3 /\ Len(rest) = 1

(***************************************************************************)
(* The maps of the compound automaton.                                     *)
(***************************************************************************)
Compiled == phase \in {"compiled", "matching"} /\ aut.ok

\* C17: after compile succeeded, root has an entry for the class of every
\* final state of the prefix NFA, and suffix has an entry for the class of
\* every final state of every root NFA.
C17_CompoundMaps ==
    Compiled =>
        /\ \A q \in aut.prefix.final_states : MapContains(aut.root, aut.sb[q + 1])
        /\ \A c \in DOMAIN aut.root :
               \A q \in aut.root[c].final_states : MapContains(aut.suffix, aut.sb[q + 1])

\* A compiled automaton whose prefix has final states of two classes and
\* one of whose roots has final states of two classes: root and suffix
\* have two entries each.
C17_Witness ==
    /\ Compiled
    /\ Cardinality({aut.sb[q + 1] : q \in aut.prefix.final_states}) = 2
    /\ \E c \in DOMAIN aut.root :
           Cardinality({aut.sb[q + 1] : q \in aut.root[c].final_states}) = 2
    /\ Cardinality(DOMAIN aut.root) = 2
    /\ Cardinality(DOMAIN aut.suffix) = 2

(***************************************************************************)
(* IRegEx::compile called with a state builder of a small limit. ire holds *)
(* the expression and the limit, aut what compile returned.                *)
(***************************************************************************)
\* The largest limit given to the builder.
MaxLimit == 8

LimitedCalls ==
    { [n |-> r.n, root |-> r.root, prefix |-> r.prefix, suffix |-> r.suffix,
       limit |-> l] : r \in IRegExes, l \in 0 .. MaxLimit }

LimitInit ==
    /\ phase = "ir-limited"
    /\ ire \in LimitedCalls
    /\ aut = <<>>
    /\ hay = <<>> /\ rest = <<>> /\ prefix_state = None /\ class = DefaultClass
    /\ position = 0 /\ min = 0 /\ out = <<>> /\ ret = Running /\ recalled = FALSE
    /\ InitAut

\* IRegEx::compile, Ok(CompoundAutomaton) returned
CompileOk ==
    /\ phase = "ir-limited"
    /\ aut' = Compile(ire, NewBuilder(ire.n, ire.limit))
    /\ aut'.ok
    /\ phase' = "limited"
    /\ UNCHANGED <<ire, hay, rest, prefix_state, class, position, min, out, ret,
                   recalled, autVars>>

\* IRegEx::compile, Err(TooManyStates) returned
CompileErr ==
    /\ phase = "ir-limited"
    /\ aut' = Compile(ire, NewBuilder(ire.n, ire.limit))
    /\ ~aut'.ok
    /\ phase' = "limited"
    /\ UNCHANGED <<ire, hay, rest, prefix_state, class, position, min, out, ret,
                   recalled, autVars>>

LimitNext ==
    \/ CompileOk
    \/ CompileErr

LimitSpec == LimitInit /\ [][LimitNext]_vars

\* What compile returns for the same expression with the default builder.
Unlimited == Compile(ire, NewBuilder(ire.n, DefaultLimit))

\* The states of the prefix NFA and of the root NFAs of an automaton.
PrefixStates(a) == a.prefix.states

RootStates(a) == UNION {a.root[c].states : c \in DOMAIN a.root}

\* C18: compile fails exactly when building the prefix, a root or a suffix
\* asks the builder for more states than its limit; it then returns the
\* error and no automaton, and the next_state call that failed added no
\* state to the NFA under construction: that NFA holds none of the
\* identifiers from the limit on. Otherwise it returns the automaton the
\* default builder gives.
C18_CompileError ==
    phase = "limited" =>
        LET Holds(full) ==
                /\ aut.ok <=> Len(full.sb) <= ire.limit
                /\ aut.ok => aut = full
                /\ ~aut.ok =>
                       /\ aut.prefix = NewNFA /\ aut.root = EmptyMap
                       /\ aut.suffix = EmptyMap
                       /\ aut.sb = SubSeq(full.sb, 1, ire.limit + 1)
                       /\ aut.partial.states \subseteq 0 .. (ire.limit - 1)
        IN Holds(Unlimited)

\* compile failed while it built a suffix: the limit is above every state
\* of the prefix and of the roots, and the suffix under construction had
\* states already.
C18_Witness ==
    /\ phase = "limited"
    /\ ~aut.ok
    /\ \A q \in PrefixStates(Unlimited) \cup RootStates(Unlimited) : q < ire.limit
    /\ aut.partial.states # {}
    /\ RootStates(Unlimited) # {}

\* compile failed while it built the prefix.
C18_WitnessPrefix ==
    /\ phase = "limited"
    /\ ~aut.ok
    /\ ire.limit >= 1
    /\ ire.limit \in PrefixStates(Unlimited)

\* compile failed while it built a root.
C18_WitnessRoot ==
    /\ phase = "limited"
    /\ ~aut.ok
    /\ ire.limit \in RootStates(Unlimited)
    /\ aut.partial.states # {}

(***************************************************************************)
(* U32StateBuilder::next_state called again and again on one builder, its  *)
(* results ignored or not. The identifiers are u32 and states.len() is a   *)
(* usize cast with `as u32`: the cast keeps the low bits. The model gives  *)
(* u32 U32Bits bits, so that the calls reach the values where the cast     *)
(* matters; usize is wider and never reaches its end here.                 *)
(***************************************************************************)
\* The width of u32 in the model.
U32Bits == 3

\* The most calls of next_state on one builder.
MaxCalls == 18

\* u32::MAX
U32Max == 2 ^ U32Bits - 1

\* `as u32`
AsU32(x) == x % (2 ^ U32Bits)

\* U32StateBuilder::next_state on a builder with len states pushed: what it
\* returns (ok, q) and the length of states after the call.
U32NextState(len, limit) ==
    [q |-> AsU32(len), len |-> len + 1, ok |-> ~(AsU32(len + 1) > limit)]

\* U32StateBuilder { states: Vec::new(), limit }, U32StateBuilder::default()
\* being the one with limit u32::MAX; returned is the identifiers handed
\* out so far, last what the last call returned.
BuilderInit ==
    /\ phase = "builder"
    /\ state_builder \in { [len |-> 0, limit |-> l, returned |-> <<>>, last |-> "new"] :
                               l \in 0 .. U32Max }
    /\ nfa = NewNFA /\ dfa = <<>> /\ mdfa = <<>> /\ aphase = "idle" /\ sessions = <<>>
    /\ ire = <<>> /\ aut = <<>>
    /\ hay = <<>> /\ rest = <<>> /\ prefix_state = None /\ class = DefaultClass
    /\ position = 0 /\ min = 0 /\ out = <<>> /\ ret = Running /\ recalled = FALSE

\* next_state returns Ok(q): the state is declared in the NFA.
NextStateOk ==
    /\ phase = "builder"
    /\ state_builder.len < MaxCalls
    /\ U32NextState(state_builder.len, state_builder.limit).ok
    /\ LET r == U32NextState(state_builder.len, state_builder.limit)
       IN /\ state_builder' = [state_builder EXCEPT !.len = r.len,
                                                    !.returned = Append(@, r.q),
                                                    !.last = "ok"]
          /\ nfa' = AddState(nfa, r.q)
    /\ UNCHANGED <<phase, ire, aut, hay, rest, prefix_state, class, position, min,
                   out, ret, recalled, dfa, mdfa, aphase, sessions>>

\* next_state returns Err(TooManyStates): the class was pushed, the NFA is
\* left as it was.
NextStateErr ==
    /\ phase = "builder"
    /\ state_builder.len < MaxCalls
    /\ ~U32NextState(state_builder.len, state_builder.limit).ok
    /\ LET r == U32NextState(state_builder.len, state_builder.limit)
       IN state_builder' = [state_builder EXCEPT !.len = r.len, !.last = "err"]
    /\ UNCHANGED <<phase, ire, aut, hay, rest, prefix_state, class, position, min,
                   out, ret, recalled, nfa, dfa, mdfa, aphase, sessions>>

BuilderNext ==
    \/ NextStateOk
    \/ NextStateErr

BuilderSpec == BuilderInit /\ [][BuilderNext]_vars

\* C19: a U32StateBuilder of limit L hands out 0, 1, 2, ... in order, fails
\* on every call that would bring the number of states handed out above L,
\* and at every limit, the default one included, never hands out an
\* identifier a second time.
C19_FreshIdentifiers ==
    phase = "builder" =>
        /\ state_builder.returned = [k \in 1 .. Len(state_builder.returned) |-> k - 1]
        /\ Len(state_builder.returned) <= state_builder.limit
        /\ state_builder.last = "err" <=> state_builder.len > state_builder.limit
        /\ Cardinality(nfa.states) = Len(state_builder.returned)

(***************************************************************************)
(* Well-formedness of an NFA under construction.                           *)
(***************************************************************************)
\* C20: after any sequence of construction operations, every initial
\* state, every final state and every source or target of a transition is
\* a key of the transition table, i.e. one of states().
C20_WellFormed ==
    aphase = "building" =>
        /\ nfa.initial_states \subseteq nfa.states
        /\ nfa.final_states \subseteq nfa.states
        /\ \A x \in nfa.transitions : x[1] \in nfa.states /\ x[3] \in nfa.states

(***************************************************************************)
(* The queries of an NFA: recognizes_empty, is_singleton, to_singleton,    *)
(* is_finite, is_infinite and is_universal. They take &self: nfa is left   *)
(* as it is, and out holds, for every query, what its last call returned   *)
(* (None as long as no call of it has returned).                           *)
(***************************************************************************)
\* recognizes_empty that looks at the initial states only.
RecognizesEmptyNoEpsilon(a, visited, stack) ==
    \E i \in 1 .. Len(stack) : stack[i] \in a.final_states

RECURSIVE RecognizesEmptyLoop(_, _, _)
\* NFA::recognizes_empty: the loop that pops the stack.
RecognizesEmptyLoop(a, visited, stack) ==
    IF stack = <<>> THEN FALSE
    ELSE LET q == stack[Len(stack)]
             popped == SubSeq(stack, 1, Len(stack) - 1)
         IN IF q \in visited THEN RecognizesEmptyLoop(a, visited, popped)
            ELSE IF q \in a.final_states THEN TRUE
            ELSE RecognizesEmptyLoop(a, visited \cup {q},
                                     popped \o SortedSeq(EpsilonTargets(a, q)))

\* NFA::recognizes_empty
RecognizesEmpty(a) == RecognizesEmptyLoop(a, {}, SortedSeq(a.initial_states))

\* VisitingState::labels, flattened: the tokens of the ranges of the labels
\* of the transitions that leave one of the states.
LabelTokens(a, states) ==
    UNION { Unwrap(x[2]) :
              x \in {y \in a.transitions : y[1] \in states /\ IsSome(y[2])} }

\* The token a loop of is_singleton / to_singleton follows out of a state
\* that is not final: None where a range holds two tokens, where two ranges
\* start at different tokens, and where there is no range.
SingletonTokenAny(a, q) ==
    IF LabelTokens(a, q) = {} THEN None
    ELSE Some(CHOOSE t \in LabelTokens(a, q) : \A u \in LabelTokens(a, q) : t <= u)

SingletonToken(a, q) ==
    IF Cardinality(LabelTokens(a, q)) = 1
    THEN Some(CHOOSE t \in LabelTokens(a, q) : TRUE)
    ELSE None

RECURSIVE IsSingletonLoop(_, _, _)
\* NFA::is_singleton: the loop. Some(b) is the value it breaks or returns
\* with. It holds no other state than q, so that it runs forever once it
\* comes back to a q it has left: None stands for that, seen being the
\* states left so far.
IsSingletonLoop(a, q, seen) ==
    IF IsFinalState(a, q) THEN Some(LabelTokens(a, q) = {})
    ELSE IF ~IsSome(SingletonToken(a, q)) THEN Some(FALSE)
    ELSE IF q \in seen THEN None
    ELSE LET Step(r) == IF ~IsSome(r) THEN Some(FALSE)
                        ELSE IsSingletonLoop(a, Unwrap(r), seen \cup {q})
         IN Step(NextStateOf(a, q, Unwrap(SingletonToken(a, q))))

\* NFA::is_singleton
IsSingleton(a) ==
    IF ~IsSome(InitialState(a)) THEN Some(FALSE)
    ELSE IsSingletonLoop(a, Unwrap(InitialState(a)), {})

RECURSIVE ToSingletonLoop(_, _, _, _)
\* NFA::to_singleton: the loop, Some(o) being the Option it breaks or
\* returns with and None a loop that runs forever.
ToSingletonLoop(a, q, result, seen) ==
    IF IsFinalState(a, q)
    THEN Some(IF LabelTokens(a, q) = {} THEN Some(result) ELSE None)
    ELSE IF ~IsSome(SingletonToken(a, q)) THEN Some(None)
    ELSE IF q \in seen THEN None
    ELSE LET Step(r) ==
                 IF ~IsSome(r) THEN Some(None)
                 ELSE ToSingletonLoop(a, Unwrap(r),
                                      Append(result, Unwrap(SingletonToken(a, q))),
                                      seen \cup {q})
         IN Step(NextStateOf(a, q, Unwrap(SingletonToken(a, q))))

\* NFA::to_singleton
ToSingleton(a) ==
    IF ~IsSome(InitialState(a)) THEN Some(None)
    ELSE ToSingletonLoop(a, Unwrap(InitialState(a)), <<>>, {})

\* The order of the entries (label, target) of one state's Transitions:
\* None before Some, the sets by their ascending tokens, then the targets.
LabelKey(label) == IF IsSome(label) THEN <<0>> \o SortedSeq(Unwrap(label)) ELSE <<>>

SuccessorLess(x, y) ==
    \/ SeqLess(LabelKey(x[2]), LabelKey(y[2]))
    \/ LabelKey(x[2]) = LabelKey(y[2]) /\ x[3] < y[3]

RECURSIVE SuccessorTargets(_)
\* successors(q).flat_map(|(_, r)| r): one target per label and target.
SuccessorTargets(transitions) ==
    IF transitions = {} THEN <<>>
    ELSE LET x == CHOOSE t \in transitions :
                      \A u \in transitions \ {t} : SuccessorLess(t, u)
         IN <<x[3]>> \o SuccessorTargets(transitions \ {x})

RECURSIVE IsFiniteLoop(_, _, _)
\* NFA::is_finite: the loop that pops the stack.
IsFiniteLoop(a, visited, stack) ==
    IF stack = <<>> THEN TRUE
    ELSE LET q == stack[Len(stack)]
             popped == SubSeq(stack, 1, Len(stack) - 1)
         IN IF q \in visited THEN FALSE
            ELSE IsFiniteLoop(a, visited \cup {q},
                              popped \o SuccessorTargets(
                                            {x \in a.transitions : x[1] = q}))

\* NFA::is_finite
IsFinite(a) == IsFiniteLoop(a, {}, SortedSeq(a.initial_states))

\* NFA::is_infinite
IsInfinite(a) == ~IsFinite(a)

\* is_always_concurrently: the targets of the transitions of the states of
\* state_set whose label is not None.
LabelledSuccessors(a, state_set) ==
    {x[3] : x \in {y \in a.transitions : y[1] \in state_set /\ IsSome(y[2])}}

RECURSIVE IsUniversalLoop(_, _, _, _)
\* NFA::is_always_concurrently, the loop that pops the stack, with the
\* predicate of is_universal: the ranges of the labels that leave the
\* states of the set make up the alphabet.
IsUniversalLoop(a, alphabet, visited, stack) ==
    IF stack = <<>> THEN TRUE
    ELSE LET state_set == stack[Len(stack)]
             popped == SubSeq(stack, 1, Len(stack) - 1)
         IN IF state_set \in visited THEN IsUniversalLoop(a, alphabet, visited, popped)
            ELSE IF LabelTokens(a, state_set) # alphabet THEN FALSE
            ELSE IsUniversalLoop(
                     a, alphabet, visited \cup {state_set},
                     Append(popped,
                            ModuloEpsilonState(a, LabelledSuccessors(a, state_set))))

\* NFA::is_universal
IsUniversal(a, alphabet) == IsUniversalLoop(a, alphabet, {}, <<a.initial_states>>)

\* The transitions the queried automata are made of: an epsilon-edge, two
\* labels from 0 to 1, a chain 0 -> 1 -> 2 and two edges back to 0.
QueryTransitions ==
    { <<0, None, 1>>, <<0, Some({0}), 1>>, <<0, Some({1}), 1>>,
      <<1, Some({1}), 2>>, <<1, Some({0, 1}), 0>>, <<1, Some({0}), 0>> }

QueryNFAs ==
    { [states |-> {x[1] : x \in ts} \cup {x[3] : x \in ts}, transitions |-> ts,
       initial_states |-> is, final_states |-> fs] :
          ts \in SUBSET QueryTransitions,
          is \in { {}, {0}, {0, 1} },
          fs \in { {}, {1}, {2}, {0, 1} } }

\* The alphabets is_universal is called with.
Alphabets == { {0}, {0, 1} }

NoAnswers ==
    [recognizes_empty |-> None, is_singleton |-> None, to_singleton |-> None,
     is_finite |-> None, is_infinite |-> None, is_universal |-> None]

QueryInit ==
    /\ phase = "query"
    /\ nfa \in QueryNFAs
    /\ out = NoAnswers
    /\ ire = <<>> /\ aut = <<>>
    /\ hay = <<>> /\ rest = <<>> /\ prefix_state = None /\ class = DefaultClass
    /\ position = 0 /\ min = 0 /\ ret = Running /\ recalled = FALSE
    /\ dfa = <<>> /\ mdfa = <<>> /\ aphase = "idle" /\ state_builder = <<>> /\ sessions = <<>>

queryVars == <<phase, ire, aut, hay, rest, prefix_state, class, position, min,
               ret, recalled, autVars>>

\* NFA::recognizes_empty
QueryRecognizesEmpty ==
    /\ phase = "query"
    /\ out' = [out EXCEPT !.recognizes_empty = Some(RecognizesEmpty(nfa))]
    /\ UNCHANGED queryVars

\* NFA::is_singleton, a call that returns
QueryIsSingleton ==
    /\ phase = "query"
    /\ out' = [out EXCEPT !.is_singleton = IsSingleton(nfa)]
    /\ IsSome(out'.is_singleton)
    /\ UNCHANGED queryVars

\* NFA::to_singleton, a call that returns
QueryToSingleton ==
    /\ phase = "query"
    /\ out' = [out EXCEPT !.to_singleton = ToSingleton(nfa)]
    /\ IsSome(out'.to_singleton)
    /\ UNCHANGED queryVars

\* NFA::is_finite
QueryIsFinite ==
    /\ phase = "query"
    /\ out' = [out EXCEPT !.is_finite = Some(IsFinite(nfa))]
    /\ UNCHANGED queryVars

\* NFA::is_infinite
QueryIsInfinite ==
    /\ phase = "query"
    /\ out' = [out EXCEPT !.is_infinite = Some(IsInfinite(nfa))]
    /\ UNCHANGED queryVars

\* NFA::is_universal
QueryIsUniversal(alphabet) ==
    /\ phase = "query"
    /\ out' = [out EXCEPT !.is_universal =
                              Some([alphabet |-> alphabet,
                                    value |-> IsUniversal(nfa, alphabet)])]
    /\ UNCHANGED queryVars

QueryNext ==
    \/ QueryRecognizesEmpty
    \/ QueryIsSingleton
    \/ QueryToSingleton
    \/ QueryIsFinite
    \/ QueryIsInfinite
    \/ \E alphabet \in Alphabets : QueryIsUniversal(alphabet)

QuerySpec == QueryInit /\ [][QueryNext]_vars

\* C21: recognizes_empty() returns true iff some final state belongs to
\* the epsilon-closure of the set of initial states.
C21_RecognizesEmpty ==
    (phase = "query" /\ IsSome(out.recognizes_empty)) =>
        (Unwrap(out.recognizes_empty)
            <=> Closure(nfa, nfa.initial_states) \cap nfa.final_states # {})

\* recognizes_empty has returned true for an automaton none of whose
\* initial states is final: the final state is behind an epsilon-transition.
C21_Witness ==
    /\ phase = "query"
    /\ out.recognizes_empty = Some(TRUE)
    /\ nfa.initial_states \cap nfa.final_states = {}

\* C22: where is_singleton and to_singleton both return, is_singleton is
\* true iff to_singleton is Some(w), and then the automaton accepts w and
\* no other sequence of tokens.
C22_Singleton ==
    (phase = "query" /\ IsSome(out.is_singleton) /\ IsSome(out.to_singleton)) =>
        /\ Unwrap(out.is_singleton) <=> IsSome(Unwrap(out.to_singleton))
        /\ IsSome(Unwrap(out.to_singleton)) =>
               /\ Accepts(nfa, Unwrap(Unwrap(out.to_singleton)))
               /\ \A w \in Haystacks :
                      Accepts(nfa, w) => w = Unwrap(Unwrap(out.to_singleton))

\* Both queries have returned on an automaton whose one word has two
\* tokens, in the presence of transitions that lead nowhere else.
C22_Witness ==
    /\ phase = "query"
    /\ out.is_singleton = Some(TRUE)
    /\ IsSome(out.to_singleton) /\ IsSome(Unwrap(out.to_singleton))
    /\ Len(Unwrap(Unwrap(out.to_singleton))) = 2

\* Both queries have returned on an automaton that accepts the empty word
\* only.
C22_WitnessEmpty ==
    /\ phase = "query"
    /\ out.is_singleton = Some(TRUE)
    /\ out.to_singleton = Some(Some(<<>>))
    /\ nfa.transitions # {}

\* The targets of the transitions, whatever their label, that leave S.
AnySuccessors(a, S) == {x[3] : x \in {y \in a.transitions : y[1] \in S}}

RECURSIVE ReachableFrom(_, _)
\* The states a path of zero or more transitions leads to from S.
ReachableFrom(a, S) ==
    LET T == S \cup AnySuccessors(a, S)
    IN IF T = S THEN S ELSE ReachableFrom(a, T)

\* The part of the automaton reachable from the initial states contains a
\* cycle: a reachable state that a path of one or more transitions leads
\* back to.
HasCycle(a) ==
    \E q \in ReachableFrom(a, a.initial_states) :
        q \in ReachableFrom(a, AnySuccessors(a, {q}))

\* C23: is_finite() returns false iff the part of the NFA reachable from
\* the initial states contains a cycle, and is_infinite() is its negation.
C23_IsFinite ==
    phase = "query" =>
        /\ IsSome(out.is_finite) => (Unwrap(out.is_finite) <=> ~HasCycle(nfa))
        /\ IsSome(out.is_infinite) => (Unwrap(out.is_infinite) <=> HasCycle(nfa))

\* The words made of the tokens of the alphabet.
Over(alphabet, w) == \A i \in 1 .. Len(w) : w[i] \in alphabet

\* C24: is_universal(alphabet) returns true iff the language of the NFA is
\* the set of all the words over the alphabet, the empty one included.
C24_IsUniversal ==
    (phase = "query" /\ IsSome(out.is_universal)) =>
        (Unwrap(out.is_universal).value
            <=> \A w \in Haystacks :
                    Accepts(nfa, w) <=> Over(Unwrap(out.is_universal).alphabet, w))

(***************************************************************************)
(* next_state as the code runs it: VisitingState.states is a HashSet, and  *)
(* `for &q in &states` visits it in an order the program does not choose:  *)
(* ascending or descending here. Targets are pushed on the stack in the    *)
(* order they are first inserted.                                          *)
(***************************************************************************)
RECURSIVE Reverse(_)
Reverse(s) == IF s = <<>> THEN <<>> ELSE Append(Reverse(Tail(s)), Head(s))

\* The order in which a HashSet of states is iterated.
HashOrder(states, descending) ==
    IF descending THEN Reverse(SortedSeq(states)) ELSE SortedSeq(states)

RECURSIVE InsertAll(_, _, _)
\* for r in targets { if next_states.insert(r) { stack.push(r) } }
InsertAll(targets, next_states, stack) ==
    IF targets = <<>> THEN [next_states |-> next_states, stack |-> stack]
    ELSE IF Head(targets) \in next_states
    THEN InsertAll(Tail(targets), next_states, stack)
    ELSE InsertAll(Tail(targets), next_states \cup {Head(targets)},
                   Append(stack, Head(targets)))

RECURSIVE VisitStates(_, _, _, _, _)
\* next_state: the loop over the states qs, in the order of the HashSet.
VisitStates(a, qs, token, next_states, stack) ==
    IF qs = <<>> THEN [next_states |-> next_states, stack |-> stack]
    ELSE LET Rest(v) == VisitStates(a, Tail(qs), token, v.next_states, v.stack)
         IN Rest(InsertAll(
                     SuccessorTargets({x \in a.transitions :
                                          /\ x[1] = Head(qs)
                                          /\ IsSome(x[2])
                                          /\ token \in Unwrap(x[2])}),
                     next_states, stack))

RECURSIVE EpsilonClosureLoop(_, _, _)
\* next_state: the epsilon-closure loop that pops the stack.
EpsilonClosureLoop(a, next_states, stack) ==
    IF stack = <<>> THEN next_states
    ELSE LET Rest(v) == EpsilonClosureLoop(a, v.next_states, v.stack)
         IN Rest(InsertAll(SortedSeq(EpsilonTargets(a, stack[Len(stack)])),
                           next_states, SubSeq(stack, 1, Len(stack) - 1)))

\* next_state that returns the states the HashSet yields first only.
NextStateFirstOnly(a, states, token, descending) ==
    LET first == IF states = {} THEN {} ELSE {Head(HashOrder(states, descending))}
        Result(next_states) == IF next_states = {} THEN None ELSE Some(next_states)
        Close(v) == Result(EpsilonClosureLoop(a, v.next_states, v.stack))
    IN Close(VisitStates(a, SortedSeq(first), token, {}, <<>>))

\* Automaton::next_state for NFA, the HashSet iterated in the given order.
NextStateOrdered(a, states, token, descending) ==
    LET Result(next_states) == IF next_states = {} THEN None ELSE Some(next_states)
        Close(v) == Result(EpsilonClosureLoop(a, v.next_states, v.stack))
    IN Close(VisitStates(a, HashOrder(states, descending), token, {}, <<>>))

(***************************************************************************)
(* Matching sessions over one shared automaton. CompoundAutomaton::matches *)
(* takes &self and Matches keeps that reference next to the cursor it      *)
(* owns; sessions[s] is the Matches value of session s, with the ranges    *)
(* its next() has returned so far. A step is one iteration of the loop of  *)
(* Matches::next of one session, descending being the order in which       *)
(* next_state iterates the states of the prefix automaton.                 *)
(***************************************************************************)
Sessions == {1, 2}

\* The regular expressions whose automaton is shared.
SessionIRegExes ==
    { [n |-> n, root |-> r, prefix |-> AffixAny, suffix |-> AffixAny] :
        n \in {1, 2},
        r \in { Alt1(TokA), << <<>> >>, Alt1(Star(Alt1(Token({0, 1})))) } }

\* The haystacks of the sessions.
SessionHaystacks == { <<0>>, <<1, 0>>, <<0, 0, 2>> }

\* A session that has not called matches() yet.
NewCursor ==
    [started |-> FALSE, hay |-> <<>>, rest |-> <<>>, prefix_state |-> None,
     class |-> DefaultClass, position |-> 0, min |-> 0, out |-> <<>>, ret |-> Running]

\* CompoundAutomaton::matches: the Matches value it returns.
MatchesCursor(a, h) ==
    [started |-> TRUE, hay |-> h, rest |-> h, prefix_state |-> InitialState(a.prefix),
     class |-> DefaultClass, position |-> 0, min |-> 0, out |-> <<>>, ret |-> Running]

\* Matches::next, the test that opens the loop body, on the cursor cur.
CursorAttempt(a, cur) ==
    IF IsSome(cur.prefix_state) /\ cur.position >= cur.min
       /\ IsFinalState(a.prefix, Unwrap(cur.prefix_state))
    THEN NextFromPosition(a, cur.position, cur.rest, cur.class)
    ELSE None

\* Matches::next: one iteration of its loop on the cursor cur.
CursorNext(a, cur, descending) ==
    IF ~IsSome(cur.prefix_state) THEN [cur EXCEPT !.ret = RetNone]
    ELSE LET Found(end) ==
                 IF IsSome(end)
                 THEN [cur EXCEPT !.min = Watermark(Unwrap(end), cur.position),
                                  !.out = Append(@, <<cur.position, Unwrap(end)>>),
                                  !.ret = RetSome(cur.position, Unwrap(end))]
                 ELSE IF cur.rest # <<>>
                 THEN [cur EXCEPT !.class = NextClass(a.n, @, Head(cur.rest)),
                                  !.position = @ + TokenLen(Head(cur.rest)),
                                  !.prefix_state =
                                      NextStateOrdered(a.prefix, Unwrap(@),
                                                       Head(cur.rest), descending),
                                  !.rest = Tail(@),
                                  !.ret = Running]
                 ELSE [cur EXCEPT !.prefix_state = None, !.ret = RetNone]
         IN Found(CursorAttempt(a, cur))

\* A cursor all the sessions would share.
SessionCursorShared(s) == sessions[CHOOSE t \in Sessions : \A u \in Sessions : t <= u]

\* &mut self of the Matches value of session s.
SessionCursor(s) == sessions[s]

SessionInit ==
    /\ phase = "shared"
    /\ ire \in SessionIRegExes
    /\ aut = Compile(ire, NewBuilder(ire.n, DefaultLimit))
    /\ sessions = [s \in Sessions |-> NewCursor]
    /\ hay = <<>> /\ rest = <<>> /\ prefix_state = None /\ class = DefaultClass
    /\ position = 0 /\ min = 0 /\ out = <<>> /\ ret = Running /\ recalled = FALSE
    /\ nfa = NewNFA /\ dfa = <<>> /\ mdfa = <<>> /\ aphase = "idle"
    /\ state_builder = <<>>

sessionVars == <<phase, ire, aut, hay, rest, prefix_state, class, position, min,
                 out, ret, recalled, nfa, dfa, mdfa, aphase, state_builder>>

\* CompoundAutomaton::matches called by session s
SessionMatches(s, h) ==
    /\ phase = "shared"
    /\ ~sessions[s].started
    /\ sessions' = [sessions EXCEPT ![s] = MatchesCursor(aut, h)]
    /\ UNCHANGED sessionVars

\* An iteration of Matches::next of session s that returns a match.
SessionEmit(s) ==
    /\ phase = "shared"
    /\ sessions[s].started
    /\ \E descending \in BOOLEAN :
           sessions' = [sessions EXCEPT
                            ![s] = CursorNext(aut, SessionCursor(s), descending)]
    /\ sessions'[s].ret[1] = "some"
    /\ Len(sessions'[s].out) > Len(sessions[s].out)
    /\ UNCHANGED sessionVars

\* An iteration of Matches::next of session s that moves over a token.
SessionAdvance(s) ==
    /\ phase = "shared"
    /\ sessions[s].started
    /\ IsSome(sessions[s].prefix_state)
    /\ \E descending \in BOOLEAN :
           sessions' = [sessions EXCEPT
                            ![s] = CursorNext(aut, SessionCursor(s), descending)]
    /\ sessions'[s].ret = Running
    /\ UNCHANGED sessionVars

\* An iteration of Matches::next of session s that finds the haystack
\* exhausted and returns None.
SessionExhausted(s) ==
    /\ phase = "shared"
    /\ sessions[s].started
    /\ IsSome(sessions[s].prefix_state)
    /\ \E descending \in BOOLEAN :
           sessions' = [sessions EXCEPT
                            ![s] = CursorNext(aut, SessionCursor(s), descending)]
    /\ sessions'[s].ret = RetNone
    /\ UNCHANGED sessionVars

\* Matches::next of session s with no prefix state left.
SessionNone(s) ==
    /\ phase = "shared"
    /\ sessions[s].started
    /\ ~IsSome(sessions[s].prefix_state)
    /\ \E descending \in BOOLEAN :
           sessions' = [sessions EXCEPT
                            ![s] = CursorNext(aut, SessionCursor(s), descending)]
    /\ UNCHANGED sessionVars

SessionNext ==
    \/ \E s \in Sessions, h \in SessionHaystacks : SessionMatches(s, h)
    \/ \E s \in Sessions : SessionEmit(s)
    \/ \E s \in Sessions : SessionAdvance(s)
    \/ \E s \in Sessions : SessionExhausted(s)
    \/ \E s \in Sessions : SessionNone(s)

SessionSpec == SessionInit /\ [][SessionNext]_vars

RECURSIVE RunAlone(_, _)
\* The ranges a session returns when its iterations run one after the
\* other with nothing between them, until next() returns None.
RunAlone(a, cur) ==
    IF cur.ret = RetNone THEN cur.out ELSE RunAlone(a, CursorNext(a, cur, FALSE))

\* C25: sessions interleaved over one shared automaton: each returns the
\* ranges it returns alone (a prefix of them while it runs, all of them
\* once next() has returned None), and a step leaves the automaton, the
\* haystack of every session and the cursor of every session but one as
\* they are.
C25_Sessions ==
    /\ [](phase = "shared" =>
            \A s \in Sessions :
                sessions[s].started =>
                    LET alone == RunAlone(aut, MatchesCursor(aut, sessions[s].hay))
                    IN /\ IsPrefixOf(sessions[s].out, alone)
                       /\ sessions[s].ret = RetNone => sessions[s].out = alone)
    /\ [][phase = "shared" =>
            /\ aut' = aut
            /\ Cardinality({s \in Sessions : sessions'[s] # sessions[s]}) <= 1
            /\ \A s \in Sessions :
                   sessions[s].started =>
                       /\ sessions'[s].hay = sessions[s].hay
                       /\ IsPrefixOf(sessions[s].out, sessions'[s].out)]_vars

\* Two sessions over different haystacks are both in the middle of their
\* run, each with a range returned and tokens left to read.
C25_Witness ==
    /\ phase = "shared"
    /\ \A s \in Sessions :
           /\ sessions[s].started
           /\ sessions[s].out # <<>>
           /\ sessions[s].rest # <<>>
           /\ sessions[s].ret # RetNone
    /\ sessions[1].hay # sessions[2].hay

(***************************************************************************)
(* The same IRegEx compiled twice and the same haystack matched twice.     *)
(* aut holds the automata compiled so far, sessions[r] the Matches value   *)
(* of run r over aut[r].                                                   *)
(***************************************************************************)
Runs == {1, 2}

DetIRegExes ==
    SessionIRegExes \cup
    { [n |-> 2, root |-> << <<TokA>>, <<TokA, TokB>> >>,
       prefix |-> AffixAlternation(Alt1(Star(Alt1(TokA)))),
       suffix |-> AffixAlternation(Alt1(TokB))] }

\* The builder of a compilation that goes on with the states of the one
\* before.
CompileBuilderReused(done) ==
    IF done = <<>> THEN NewBuilder(ire.n, DefaultLimit)
    ELSE [NewBuilder(ire.n, DefaultLimit) EXCEPT !.sb = done[Len(done)].sb]

\* U32StateBuilder::new() for every compilation, whatever was compiled
\* before.
CompileBuilder(done) == NewBuilder(ire.n, DefaultLimit)

DetInit ==
    /\ phase = "twice"
    /\ ire \in DetIRegExes
    /\ hay \in SessionHaystacks
    /\ aut = <<>>
    /\ sessions = [r \in Runs |-> NewCursor]
    /\ rest = <<>> /\ prefix_state = None /\ class = DefaultClass
    /\ position = 0 /\ min = 0 /\ out = <<>> /\ ret = Running /\ recalled = FALSE
    /\ nfa = NewNFA /\ dfa = <<>> /\ mdfa = <<>> /\ aphase = "idle"
    /\ state_builder = <<>>

detVars == <<phase, ire, hay, rest, prefix_state, class, position, min, out, ret,
             recalled, nfa, dfa, mdfa, aphase, state_builder>>

\* IRegEx::compile, once per run
DetCompile ==
    /\ phase = "twice"
    /\ Len(aut) < Cardinality(Runs)
    /\ aut' = Append(aut, Compile(ire, CompileBuilder(aut)))
    /\ UNCHANGED <<detVars, sessions>>

\* CompoundAutomaton::matches of run r on the haystack
DetMatches(r) ==
    /\ phase = "twice"
    /\ r <= Len(aut)
    /\ aut[r].ok
    /\ ~sessions[r].started
    /\ sessions' = [sessions EXCEPT ![r] = MatchesCursor(aut[r], hay)]
    /\ UNCHANGED <<detVars, aut>>

\* One iteration of Matches::next of run r.
DetNext(r) ==
    /\ phase = "twice"
    /\ sessions[r].started
    /\ sessions[r].ret # RetNone
    /\ \E descending \in BOOLEAN :
           sessions' = [sessions EXCEPT
                            ![r] = CursorNext(aut[r], sessions[r], descending)]
    /\ UNCHANGED <<detVars, aut>>

DetStep ==
    \/ DetCompile
    \/ \E r \in Runs : DetMatches(r)
    \/ \E r \in Runs : DetNext(r)

DetSpec == DetInit /\ [][DetStep]_vars

\* The automata of a CompoundAutomaton.
AutomataOf(a) ==
    {a.prefix} \cup {a.root[c] : c \in DOMAIN a.root}
               \cup {a.suffix[c] : c \in DOMAIN a.suffix}

\* next_state returns the same states whatever the order in which the
\* HashSet is iterated: the states the token leads to and their
\* epsilon-closure.
OrderFree(x) ==
    \A S \in SUBSET x.states, t \in Tokens, descending \in BOOLEAN :
        NextStateOrdered(x, S, t, descending) = NextStateOf(x, S, t)

RepeatBodies(n) ==
    { Alt1(TokA), Alt1(Token(AllTokens)), Alt1(Token({0, 2})),
      << <<TokA>>, <<TokW>> >>, << <<TokA, TokW>> >>, << <<>> >>, <<>>,
      Alt1(Boundary([k \in 1 .. n |-> Some(n - 1)])),
      << <<Boundary([k \in 1 .. n |-> None])>>, <<TokB>> >>,
      Alt1(Star(Alt1(TokB))) }

\* min and max of the repetitions built: is_zero ones, ONCE, STAR, bounded
\* and unbounded ones.
RepeatBounds ==
    { <<1, Some(0)>>, <<2, Some(1)>>, <<2, Some(0)>>,
      <<1, Some(1)>>, <<0, None>>, <<0, Some(1)>>, <<1, None>>, <<1, Some(2)>> }

RepeatCalls ==
    UNION { { [kind |-> "repeat", n |-> n, c |-> c,
               node |-> Repeat(alt, b[1], b[2])] :
                  c \in Classes(n), alt \in RepeatBodies(n), b \in RepeatBounds }
            \cup { [kind |-> "capture", n |-> n, c |-> c,
                    node |-> Capture(id, alt)] :
                       c \in Classes(n), alt \in RepeatBodies(n), id \in {0, 1} } :
            n \in ClassModels }

RepeatInit ==
    /\ phase = "node"
    /\ ire \in RepeatCalls
    /\ aut = <<>>
    /\ hay = <<>> /\ rest = <<>> /\ prefix_state = None /\ class = DefaultClass
    /\ position = 0 /\ min = 0 /\ out = <<>> /\ ret = Running /\ recalled = FALSE
    /\ InitAut

\* Repeat::build_nfa_for
RepeatBuildNfaFor ==
    /\ phase = "node"
    /\ ire.kind = "repeat"
    /\ aut' = BuildRepeat(NewBuilder(ire.n, DefaultLimit), ire.node.alt,
                          ire.node.min, ire.node.max, ire.c)
    /\ phase' = "built"
    /\ UNCHANGED <<ire, hay, rest, prefix_state, class, position, min, out, ret,
                   recalled, autVars>>

\* Atom::build_nfa_from of a Capture
CaptureBuildNfaFrom ==
    /\ phase = "node"
    /\ ire.kind = "capture"
    /\ aut' = BuildAtom(NewBuilder(ire.n, DefaultLimit), ire.node, ire.c)
    /\ phase' = "built"
    /\ UNCHANGED <<ire, hay, rest, prefix_state, class, position, min, out, ret,
                   recalled, autVars>>

RepeatNext ==
    \/ RepeatBuildNfaFor
    \/ CaptureBuildNfaFrom

RepeatSpec == RepeatInit /\ [][RepeatNext]_vars

\* What build_nfa_from returns for the body compiled on its own from c.
BodyBuilt(n, alt, c) == BuildAlternation(NewBuilder(n, DefaultLimit), alt, c)

RECURSIVE ClassesReached(_, _, _)
\* The classes reached: the entry class, and the class of every exit of
\* the body compiled from a class reached.
ClassesReached(n, alt, R) ==
    LET T == R \cup UNION { DOMAIN BodyBuilt(n, alt, c).map : c \in R }
    IN IF T = R THEN R ELSE ClassesReached(n, alt, T)

RECURSIVE StarRel(_, _, _)
\* Zero or more words of the body one after the other, each compiled from
\* the class the one before ends in, as far as they fit the longest word.
StarRel(n, alt, rel) ==
    LET next(c) == FragRel(BodyBuilt(n, alt, c))
        T == rel \cup Compose(rel, next)
    IN IF T = rel THEN rel ELSE StarRel(n, alt, T)

RECURSIVE StarStates(_, _, _)
\* One loop state and one copy of the body per class of keys.
StarStates(n, alt, keys) ==
    IF keys = <<>> THEN 0
    ELSE 1 + Len(BodyBuilt(n, alt, Head(keys)).ctx.sb) + StarStates(n, alt, Tail(keys))

\* A star has been built.
BuiltStar ==
    /\ phase = "built" /\ ire.kind = "repeat"
    /\ ire.node.min = 0 /\ ire.node.max = None

\* C27: kleene_star_closure returns, for every body and entry class. Its
\* map holds one loop state for each class reached, the entry class
\* included, and no other state is allocated outside the copies of the body
\* (one per class reached). The loop state of a class, allocated in that
\* class, has an epsilon self-loop and an epsilon-transition to the body
\* built right after it, and every exit of that body has an
\* epsilon-transition to the loop state of the class of the exit. What is
\* accepted is zero or more words of the body.
C27_KleeneStar ==
    BuiltStar =>
        /\ ~aut.ctx.err
        /\ DOMAIN aut.map = ClassesReached(ire.n, ire.node.alt, {ire.c})
        /\ aut.q = aut.map[ire.c]
        /\ Len(aut.ctx.sb) = StarStates(ire.n, ire.node.alt, MapKeys(aut.map))
        /\ \A c \in DOMAIN aut.map :
               LET q == aut.map[c]
                   body == BodyBuilt(ire.n, ire.node.alt, c)
               IN /\ ClassOf(aut.ctx, q) = c
                  /\ <<q, None, q>> \in aut.ctx.nfa.transitions
                  /\ <<q, None, q + 1 + body.q>> \in aut.ctx.nfa.transitions
                  /\ \A x \in body.ctx.nfa.transitions :
                         <<q + 1 + x[1], x[2], q + 1 + x[3]>> \in aut.ctx.nfa.transitions
                  /\ \A c2 \in DOMAIN body.map :
                         /\ c2 \in DOMAIN aut.map
                         /\ <<q + 1 + body.map[c2], None, aut.map[c2]>>
                                \in aut.ctx.nfa.transitions
        /\ FragRel(aut) = StarRel(ire.n, ire.node.alt, { <<<<>>, ire.c>> })

\* A star was built under the three-class model whose body leads from two
\* classes to one third class: the loop state of that class was allocated
\* on the first arrival and found in the map on the second.
C27_Witness ==
    /\ BuiltStar
    /\ Cardinality(DOMAIN aut.map) = 3
    /\ \E c1, c2, c3 \in DOMAIN aut.map :
           /\ c1 # c2 /\ c3 # c1 /\ c3 # c2
           /\ c3 \in DOMAIN BodyBuilt(ire.n, ire.node.alt, c1).map
           /\ c3 \in DOMAIN BodyBuilt(ire.n, ire.node.alt, c2).map
    /\ \E w \in Haystacks : Len(w) = MaxLen /\ \E c \in DOMAIN aut.map : <<w, c>> \in FragRel(aut)

\* C28: a Repeat with max = Some(k) and k < min compiles to one state a,
\* allocated in the entry class, with exits {class -> a}: the empty word
\* is accepted, nothing else is, and the class stays what it was.
C28_ZeroRepeat ==
    (/\ phase = "built" /\ ire.kind = "repeat"
     /\ IsSome(ire.node.max) /\ Unwrap(ire.node.max) < ire.node.min) =>
        /\ ~aut.ctx.err
        /\ aut.ctx.sb = <<ire.c>>
        /\ aut.ctx.nfa.states = {aut.q}
        /\ aut.ctx.nfa.transitions = {}
        /\ aut.map = MapSingleton(ire.c, aut.q)
        /\ FragRel(aut) = { <<<<>>, ire.c>> }

\* A repetition with min 2 and max 1 over a body that accepts a token was
\* built from the last class of the three-class model.
C28_Witness ==
    /\ phase = "built" /\ ire.kind = "repeat"
    /\ ire.node.min = 2 /\ ire.node.max = Some(1)
    /\ ire.n = 3 /\ ire.c = 2
    /\ FragRel(BodyBuilt(ire.n, ire.node.alt, ire.c)) # {}
    /\ aut.map = MapSingleton(2, 0)

(***************************************************************************)
(* Capture groups. TaggedNFA is the NFA next to its Tags; its Automaton    *)
(* implementation hands every call to the untagged NFA.                    *)
(***************************************************************************)
\* Automaton::initial_state for TaggedNFA
TaggedInitialState(t) == InitialState(t.nfa)

\* Automaton::next_state for TaggedNFA
TaggedNextState(t, states, token) == NextStateOf(t.nfa, states, token)

\* Automaton::is_final_state for TaggedNFA
TaggedIsFinalState(t, states) == IsFinalState(t.nfa, states)

RECURSIVE TaggedContainsFrom(_, _, _)
\* Automaton::contains: the loop over the tokens.
TaggedContainsFrom(t, q, w) ==
    IF w = <<>> THEN TaggedIsFinalState(t, q)
    ELSE LET Step(r) == IF IsSome(r) THEN TaggedContainsFrom(t, Unwrap(r), Tail(w))
                        ELSE FALSE
         IN Step(TaggedNextState(t, q, Head(w)))

\* Automaton::contains on a TaggedNFA
TaggedContains(t, w) ==
    IF IsSome(TaggedInitialState(t))
    THEN TaggedContainsFrom(t, Unwrap(TaggedInitialState(t)), w)
    ELSE FALSE

\* A capture group has been built.
BuiltCapture == phase = "built" /\ ire.kind = "capture"

\* The capture group accepts, per exit class, what its alternation accepts.
CaptureLanguage ==
    FragRel(aut) = FragRel(BodyBuilt(ire.n, ire.node.alt, ire.c))

\* Stepping the TaggedNFA made of the built NFA and its tags accepts what
\* the NFA accepts.
CaptureMatching ==
    \A w \in Haystacks : TaggedContains(Finish(aut), w) <=> Accepts(Finish(aut).nfa, w)

\* C29: Atom::Capture(id, alt) compiles to an NFA accepting the language
\* of alt; the tags hold a Begin(id) mark on an epsilon-edge of the NFA
\* that enters the group and, for every exit of the group, an End(id) mark
\* on an epsilon-edge that leads to it; stepping the TaggedNFA gives what
\* the untagged NFA gives.
C29_CaptureTags ==
    BuiltCapture =>
        /\ CaptureLanguage
        /\ \E x \in aut.ctx.tags :
               /\ x[2] = Begin(ire.node.min)
               /\ <<x[1], None, x[3]>> \in aut.ctx.nfa.transitions
        /\ \A c \in DOMAIN aut.map :
               \E x \in aut.ctx.tags :
                   /\ x[2] = End(ire.node.min)
                   /\ <<x[1], None, x[3]>> \in aut.ctx.nfa.transitions
                   /\ aut.map[c] \in Closure(aut.ctx.nfa, {x[3]})
        /\ CaptureMatching

(***************************************************************************)
(* DFAs built with DFA::new, add and add_final_state, and what minimize,   *)
(* map, try_map and compress make of them.                                 *)
(***************************************************************************)
\* Most transitions of a DFA built with DFA::add.
MaxDfaAdds == 3

DfaQ == {0, 1, 2, 3}

DfaLabels == {<<0, 0>>, <<1, 1>>}

DfaFinalChoices == {2, 3}

\* DFA::add_final_state
DfaAddFinalState(d, q) == [d EXCEPT !.final_states = @ \cup {q}]

\* The Err a function handed to try_map returns: Err for f, <<Err>> for g.
Err == -1

\* The functions f handed to map and try_map: the identity, a renaming, one
\* that sends two states to one, and one that fails on state 2.
StateFns ==
    { [q \in DfaQ |-> q], [q \in DfaQ |-> 10 - q],
      [q \in DfaQ |-> IF q = 3 THEN 1 ELSE q],
      [q \in DfaQ |-> IF q = 2 THEN Err ELSE q] }

\* The functions g: the identity and one that sends every label to one.
LabelFns == { [l \in DfaLabels |-> l], [l \in DfaLabels |-> <<0, 1>>] }

NeverFails(f) == \A x \in DOMAIN f : f[x] # Err

RECURSIVE MapLoop(_, _, _, _)
\* DFA::map: the loop over the transition table; the entries map and
\* label_map hold are the values of f and g.
MapLoop(list, f, g, result) ==
    IF list = <<>> THEN result
    ELSE MapLoop(Tail(list), f, g,
                 DfaAdd(result, f[Head(list)[1]], g[Head(list)[2]], f[Head(list)[3]]))

RECURSIVE MapFinals(_, _, _)
\* DFA::map: the loop over final_states.
MapFinals(list, f, result) ==
    IF list = <<>> THEN result
    ELSE MapFinals(Tail(list), f, DfaAddFinalState(result, f[Head(list)]))

\* DFA::map
Map(d, f, g) ==
    MapFinals(SortedSeq(d.final_states), f,
              MapLoop(TransitionsInOrder(d.transitions), f, g,
                      NewDFA(f[d.initial_state])))

RECURSIVE TryMapLoop(_, _, _, _)
\* DFA::try_map: the loop over the transition table, left with `?` when f
\* or g fails.
TryMapLoop(list, f, g, result) ==
    IF list = <<>> THEN [ok |-> TRUE, d |-> result]
    ELSE LET x == Head(list)
         IN IF f[x[1]] = Err \/ f[x[3]] = Err \/ g[x[2]] = <<Err>>
            THEN [ok |-> FALSE, d |-> result]
            ELSE TryMapLoop(Tail(list), f, g,
                            DfaAdd(result, f[x[1]], g[x[2]], f[x[3]]))

\* DFA::try_map
TryMap(d, f, g) ==
    IF f[d.initial_state] = Err THEN [ok |-> FALSE, d |-> NewDFA(Err)]
    ELSE TryMapLoop(TransitionsInOrder(d.transitions), f, g,
                    NewDFA(f[d.initial_state]))

\* DFA::single_transition_of
SingleTransitionOf(d, q) ==
    LET ts == {x \in d.transitions : x[1] = q}
    IN IF Cardinality(ts) = 1 THEN Some(CHOOSE x \in ts : TRUE) ELSE None

\* BTreeMap::insert on q_transitions, a set of <<compact_label, target>>.
CompactInsert(q_transitions, compact_label, r) ==
    {e \in q_transitions : e[1] # compact_label} \cup {<<compact_label, r>>}

RECURSIVE CompressChain(_, _, _, _, _)
\* DFA::compress: the inner `while let Some((label, s)) =
\* single_transition_of(r)`. It holds no other state than r and
\* compact_label, so that it runs forever once it comes back to an r it has
\* left: ok is FALSE then, seen being the states left so far.
CompressChain(d, r, compact_label, q_transitions, seen) ==
    LET st == SingleTransitionOf(d, r)
    IN IF ~IsSome(st)
       THEN [ok |-> TRUE, q_transitions |-> CompactInsert(q_transitions, compact_label, r)]
       ELSE IF r \in seen THEN [ok |-> FALSE, q_transitions |-> q_transitions]
       ELSE CompressChain(d, Unwrap(st)[3], Append(compact_label, Unwrap(st)[2]),
                          IF DfaIsFinalState(d, r)
                          THEN CompactInsert(q_transitions, compact_label, r)
                          ELSE q_transitions,
                          seen \cup {r})

RECURSIVE CompressLabels(_, _, _)
\* DFA::compress: the loop over the transitions (label, r) of q.
CompressLabels(d, list, acc) ==
    IF list = <<>> \/ ~acc.ok THEN acc
    ELSE CompressLabels(d, Tail(list),
                        CompressChain(d, Head(list)[3], <<Head(list)[2]>>,
                                      acc.q_transitions, {}))

\* DFA::compress: the stack holds the initial state and nothing is pushed
\* on it, so that the loop body runs once, for q = initial_state.
Compress(d) ==
    LET q == d.initial_state
        Parts(acc) ==
            [ok |-> acc.ok,
             d |-> FromParts(q, d.final_states, {q},
                             {<<q, e[1], e[2]>> : e \in acc.q_transitions})]
    IN Parts(CompressLabels(d,
                            TransitionsInOrder({x \in d.transitions : x[1] = q}),
                            [ok |-> TRUE, q_transitions |-> {}]))

DfaInit ==
    /\ phase = "dfa"
    /\ ire = <<>> /\ aut = <<>>
    /\ hay = <<>> /\ rest = <<>> /\ prefix_state = None /\ class = DefaultClass
    /\ position = 0 /\ min = 0 /\ out = <<>> /\ ret = Running /\ recalled = FALSE
    /\ nfa = NewNFA /\ dfa = NewDFA(0) /\ mdfa = <<>> /\ aphase = "building"
    /\ state_builder = <<>> /\ sessions = <<>>

dfaVars == <<phase, ire, aut, hay, rest, prefix_state, class, position, min, ret,
             recalled, nfa, state_builder, sessions>>

\* DFA::add
DfaAddCall(source, label, target) ==
    /\ aphase = "building"
    /\ dfa' = DfaAdd(dfa, source, label, target)
    /\ Cardinality(dfa'.transitions) <= MaxDfaAdds
    /\ UNCHANGED <<dfaVars, out, mdfa, aphase>>

\* DFA::add_final_state
DfaAddFinalStateCall(q) ==
    /\ aphase = "building"
    /\ dfa' = DfaAddFinalState(dfa, q)
    /\ UNCHANGED <<dfaVars, out, mdfa, aphase>>

\* DFA::minimize called with partition(|q| is_final_state(q)).into_values():
\* partition and working before the loop.
MinimizeBegin ==
    /\ aphase = "building"
    /\ mdfa' = [seed |-> PartitionByFinal(dfa), partition |-> PartitionByFinal(dfa),
                working |-> PartitionByFinal(dfa)]
    /\ aphase' = "refining"
    /\ UNCHANGED <<dfaVars, out, dfa>>

\* DFA::minimize: one iteration of `while let Some(a) = working.pop_first()`
MinimizeRefine ==
    /\ aphase = "refining"
    /\ mdfa.working # {}
    /\ \E descending \in BOOLEAN :
           mdfa' = [seed |-> mdfa.seed] @@
                   RefineStep(dfa, mdfa.partition, mdfa.working, descending)
    /\ UNCHANGED <<dfaVars, out, dfa, aphase>>

\* DFA::minimize: working is empty, the result is built and returned, or the
\* lookup of a state in map panics
MinimizeEnd ==
    /\ aphase = "refining"
    /\ mdfa.working = {}
    /\ mdfa' = [seed |-> mdfa.seed, partition |-> mdfa.partition]
                   @@ Lift(dfa, mdfa.partition)
    /\ aphase' = "minimized"
    /\ UNCHANGED <<dfaVars, out, dfa>>

\* DFA::map
MapCall(f, g) ==
    /\ aphase = "building"
    /\ NeverFails(f)
    /\ out' = [f |-> f, g |-> g, ok |-> TRUE, d |-> Map(dfa, f, g)]
    /\ aphase' = "mapped"
    /\ UNCHANGED <<dfaVars, dfa, mdfa>>

\* DFA::try_map
TryMapCall(f, g) ==
    /\ aphase = "building"
    /\ out' = [f |-> f, g |-> g] @@ TryMap(dfa, f, g)
    /\ aphase' = "try_mapped"
    /\ UNCHANGED <<dfaVars, dfa, mdfa>>

\* DFA::compress with an append that pushes the label, a call that returns
CompressCall ==
    /\ aphase = "building"
    /\ out' = Compress(dfa)
    /\ out'.ok
    /\ aphase' = "compressed"
    /\ UNCHANGED <<dfaVars, dfa, mdfa>>

DfaNext ==
    \/ \E source \in DfaQ, label \in DfaLabels, target \in DfaQ :
           DfaAddCall(source, label, target)
    \/ \E q \in DfaFinalChoices : DfaAddFinalStateCall(q)
    \/ MinimizeBegin
    \/ MinimizeRefine
    \/ MinimizeEnd
    \/ \E f \in StateFns, g \in LabelFns : MapCall(f, g)
    \/ \E f \in StateFns, g \in LabelFns : TryMapCall(f, g)
    \/ CompressCall

DfaSpec == DfaInit /\ [][DfaNext]_vars

Refining == phase = "dfa" /\ aphase = "refining"

DfaMinimized == phase = "dfa" /\ aphase = "minimized"

\* What is left of the refinement loop: every iteration pops a block of
\* working, and every split adds a block to partition and one to working at
\* most.
RefineVariant ==
    2 * (Cardinality(UNION mdfa.seed) - Cardinality(mdfa.partition))
        + Cardinality(mdfa.working)

\* The blocks are not empty, no two of them share a state, and they hold
\* the states of the seed.
IsPartitionOfSeed ==
    /\ \A y \in mdfa.partition : y # {}
    /\ \A y, z \in mdfa.partition : y # z => y \cap z = {}
    /\ UNION mdfa.partition = UNION mdfa.seed

\* Two states of one block that have a transition with one label lead into
\* one block.
IsStable(d, partition) ==
    \A x, y \in d.transitions :
        (/\ x[2] = y[2]
         /\ \E b \in partition : x[1] \in b /\ y[1] \in b)
            => \E b \in partition : x[3] \in b /\ y[3] \in b

\* C31: throughout the loop of minimize the blocks are disjoint and hold the
\* states of the seed partition; every iteration brings the loop nearer to
\* its end, a measure that is never negative decreasing; and when the loop
\* is left the partition is stable, so that a result that is returned has
\* one transition per block and label that has one.
C31_Refinement ==
    /\ [](Refining \/ DfaMinimized => IsPartitionOfSeed)
    /\ [](Refining => RefineVariant >= 0 /\ mdfa.working \subseteq mdfa.partition)
    /\ [][Refining /\ Refining' => RefineVariant' < RefineVariant]_vars
    /\ [](DfaMinimized =>
              /\ IsStable(dfa, mdfa.partition)
              /\ mdfa.ok =>
                     /\ mdfa.d.transitions =
                            { <<BlockOf(mdfa.partition, x[1]), x[2],
                                BlockOf(mdfa.partition, x[3])>> : x \in dfa.transitions }
                     /\ \A x, y \in mdfa.d.transitions :
                            x[1] = y[1] /\ x[2] = y[2] => x[3] = y[3])

\* minimize has returned a DFA of four blocks for a DFA of four states, its
\* seed having two blocks, one of three states: the loop has split a block
\* into a smaller and a larger part and the larger part again.
C31_Witness ==
    /\ DfaMinimized /\ mdfa.ok
    /\ Cardinality(mdfa.partition) = 4
    /\ Cardinality(PartitionByFinal(dfa)) = 2
    /\ \E y \in PartitionByFinal(dfa) : Cardinality(y) = 3

(***************************************************************************)
(* The labels of the NFA the compiler builds, for every Token set.         *)
(***************************************************************************)
\* Every RangeSet over the tokens, the one that holds no token included.
TokenSets == SUBSET Tokens

TokenNodes(kind) ==
    CASE kind = "atom" ->
             {Token(s) : s \in TokenSets}
             \cup {Star(Alt1(Token(s))) : s \in TokenSets}
             \cup {Capture(0, Alt1(Token(s))) : s \in TokenSets}
             \cup {Repeat(Alt1(Token(s)), 1, Some(2)) : s \in TokenSets}
      [] kind = "concatenation" ->
             {<<Token(s), Token(u)>> : s, u \in TokenSets}
      [] kind = "alternation" ->
             {<< <<Token(s)>>, <<Token(u)>> >> : s, u \in TokenSets}
      [] kind = "affix" ->
             {AffixAny, AffixAnchor}
             \cup {AffixAlternation(Alt1(Token(s))) : s \in TokenSets}

TokenInputs ==
    UNION { FragCalls(kind, n, TokenNodes(kind)) :
                kind \in {"atom", "concatenation", "alternation", "affix"},
                n \in ClassModels }

TokenInit ==
    /\ phase = "fragment"
    /\ ire \in TokenInputs
    /\ aut = <<>>
    /\ hay = <<>> /\ rest = <<>> /\ prefix_state = None /\ class = DefaultClass
    /\ position = 0 /\ min = 0 /\ out = <<>> /\ ret = Running /\ recalled = FALSE
    /\ InitAut

TokenSpec == TokenInit /\ [][FragNext]_vars

\* C32: every label of the NFA a fragment compiles to is None or a set that
\* holds a token, whatever the Token sets of the fragment.
C32_LabelsNonEmpty ==
    phase = "built" =>
        \A x \in aut.ctx.nfa.transitions : IsSome(x[2]) => Unwrap(x[2]) # {}

(***************************************************************************)
(* What a DFA accepts, its labels read as letters, and what the DFA        *)
(* compress returns accepts, its labels being sequences of letters.        *)
(***************************************************************************)
DfaWords == SeqsUpTo(DfaLabels, MaxLen)

RECURSIVE LabelReached(_, _, _)
\* The states the DFA is in after reading the labels of w from a state of Q.
LabelReached(d, Q, w) ==
    IF w = <<>> THEN Q
    ELSE LabelReached(d, {x[3] : x \in {y \in d.transitions :
                                          y[1] \in Q /\ y[2] = Head(w)}}, Tail(w))

LabelAccepts(d, w) == LabelReached(d, {d.initial_state}, w) \cap d.final_states # {}

RECURSIVE CompactAccepts(_, _, _)
\* Some path from q spells w with its labels and ends in a final state.
CompactAccepts(d, q, w) ==
    \/ w = <<>> /\ q \in d.final_states
    \/ \E x \in d.transitions :
           /\ x[1] = q
           /\ Len(x[2]) >= 1 /\ Len(x[2]) <= Len(w)
           /\ SubSeq(w, 1, Len(x[2])) = x[2]
           /\ CompactAccepts(d, x[3], SubSeq(w, Len(x[2]) + 1, Len(w)))

Compressed == phase = "dfa" /\ aphase = "compressed"

\* C33: the DFA compress returns accepts a word, read along its concatenated
\* labels, iff the DFA it was called on accepts it, and a state that is the
\* target of a transition of the result has in the result the transitions
\* it has, compressed.
C33_Compress ==
    Compressed =>
        /\ \A w \in DfaWords :
               CompactAccepts(out.d, out.d.initial_state, w) <=> LabelAccepts(dfa, w)
        /\ \A x \in out.d.transitions :
               (\E y \in dfa.transitions : y[1] = x[3])
                   => \E z \in out.d.transitions : z[1] = x[3]

(***************************************************************************)
(* Repeat::parse of the syntax crate: the bounds of `{min,max}`.           *)
(***************************************************************************)
\* The width of u32 in the model of the parser: wide enough for one digit.
ParseBits == 5

\* u32::MAX of the parser
ParseMax == 2 ^ ParseBits - 1

\* Most digits of a bound.
MaxDigits == 3

DigitChars == {"0", "1", "2", "3", "4", "9"}

\* char::to_digit(10)
ToDigit(c) ==
    CASE c = "0" -> Some(0) [] c = "1" -> Some(1) [] c = "2" -> Some(2)
      [] c = "3" -> Some(3) [] c = "4" -> Some(4) [] c = "5" -> Some(5)
      [] c = "6" -> Some(6) [] c = "7" -> Some(7) [] c = "8" -> Some(8)
      [] c = "9" -> Some(9) [] OTHER -> None

\* u32::checked_mul that wraps around instead of returning None.
WrappingMul(a, b) == Some((a * b) % (2 ^ ParseBits))

\* u32::checked_mul
CheckedMul(a, b) == IF a * b > ParseMax THEN None ELSE Some(a * b)

\* u32::checked_add
CheckedAdd(a, b) == IF a + b > ParseMax THEN None ELSE Some(a + b)

\* Error::Unexpected(Unexpected::EndOfStream), Unexpected(Unexpected::Char(c)),
\* Error::Overflow
UnexpectedEndOfStream == [ok |-> FALSE, error |-> "unexpected", char |-> None]

UnexpectedChar(c) == [ok |-> FALSE, error |-> "unexpected", char |-> Some(c)]

Overflow == [ok |-> FALSE, error |-> "overflow", char |-> None]

\* What parse_number hands to its closure f: the value read, if any, the
\* char that follows it, and the chars left.
Number(value, next, chars) ==
    [ok |-> TRUE, value |-> value, next |-> next, chars |-> chars]

RECURSIVE ParseDigits(_, _)
\* parse_number: the loop that reads the digits after the first.
ParseDigits(value, chars) ==
    IF chars = <<>> THEN UnexpectedEndOfStream
    ELSE LET d == ToDigit(Head(chars))
         IN IF ~IsSome(d) THEN Number(Some(value), Head(chars), Tail(chars))
            ELSE LET m == CheckedMul(value, 10)
                 IN IF ~IsSome(m) THEN Overflow
                    ELSE LET s == CheckedAdd(Unwrap(m), Unwrap(d))
                         IN IF ~IsSome(s) THEN Overflow
                            ELSE ParseDigits(Unwrap(s), Tail(chars))

\* parse_number, up to the call of f
ParseNumber(chars) ==
    IF chars = <<>> THEN UnexpectedEndOfStream
    ELSE LET d == ToDigit(Head(chars))
         IN IF IsSome(d) THEN ParseDigits(Unwrap(d), Tail(chars))
            ELSE Number(None, Head(chars), Tail(chars))

\* Ok(Repeat { min, max })
RepeatOk(rmin, rmax) == [ok |-> TRUE, min |-> rmin, max |-> rmax]

\* Repeat::parse: the closure given to the second parse_number
ParseMaxBound(rmin, n) ==
    IF ~n.ok THEN n
    ELSE IF n.next = "}"
         THEN RepeatOk(rmin, IF IsSome(n.value) THEN Unwrap(n.value) ELSE ParseMax)
         ELSE UnexpectedChar(n.next)

\* Repeat::parse: the closure given to the first parse_number
ParseMinBound(n) ==
    IF ~n.ok THEN n
    ELSE IF ~IsSome(n.value) THEN UnexpectedChar(n.next)
    ELSE IF n.next = "," THEN ParseMaxBound(Unwrap(n.value), ParseNumber(n.chars))
    ELSE IF n.next = "}" THEN RepeatOk(Unwrap(n.value), Unwrap(n.value))
    ELSE UnexpectedChar(n.next)

\* Repeat::parse
RepeatParse(chars) ==
    IF chars = <<>> THEN UnexpectedEndOfStream
    ELSE IF Head(chars) # "{" THEN UnexpectedChar(Head(chars))
    ELSE ParseMinBound(ParseNumber(Tail(chars)))

\* The bounds written in the inputs: one to MaxDigits digits.
RECURSIVE DigitStrings(_)
DigitStrings(k) ==
    IF k = 0 THEN { <<>> }
    ELSE LET shorter == DigitStrings(k - 1)
         IN shorter \cup { Append(w, c) : w \in shorter, c \in DigitChars }

Bounds == DigitStrings(MaxDigits) \ { <<>> }

\* The second bounds of the inputs that have two.
SecondBounds == { <<"0">>, <<"3", "1">>, <<"3", "2">>, <<"0", "4", "0">>, <<"9", "9">> }

ParseInputs ==
    { <<"{">> \o b \o <<"}">> : b \in Bounds }
    \cup { <<"{">> \o b \o <<",", "}">> : b \in Bounds }
    \cup { <<"{">> \o b \o <<",">> \o c \o <<"}">> : b \in Bounds, c \in SecondBounds }
    \cup { <<"{">> \o b : b \in Bounds }
    \cup { <<"{">> \o b \o <<",">> \o c : b \in SecondBounds, c \in SecondBounds }
    \cup { <<"{">> \o b \o <<"x">> : b \in SecondBounds }
    \cup { <<"{">> \o b \o <<",">> \o c \o <<"x">> : b \in SecondBounds, c \in SecondBounds }
    \cup { <<>>, <<"x">>, <<"{">>, <<"{", "}">>, <<"{", ",", "}">>,
           <<"{", ",", "1", "}">>, <<"{", ",", "1">> }

ParseInit ==
    /\ phase = "parse"
    /\ hay \in ParseInputs
    /\ ire = <<>> /\ aut = <<>>
    /\ rest = <<>> /\ prefix_state = None /\ class = DefaultClass
    /\ position = 0 /\ min = 0 /\ out = <<>> /\ ret = Running /\ recalled = FALSE
    /\ InitAut

parseVars == <<ire, aut, hay, rest, prefix_state, class, position, min, ret,
               recalled, autVars>>

\* Repeat::parse returns Ok
RepeatParseOk ==
    /\ phase = "parse"
    /\ out' = RepeatParse(hay)
    /\ out'.ok
    /\ phase' = "parsed"
    /\ UNCHANGED parseVars

\* Repeat::parse returns Err
RepeatParseErr ==
    /\ phase = "parse"
    /\ out' = RepeatParse(hay)
    /\ ~out'.ok
    /\ phase' = "parsed"
    /\ UNCHANGED parseVars

ParseNext == RepeatParseOk \/ RepeatParseErr

ParseSpec == ParseInit /\ [][ParseNext]_vars

RECURSIVE Decimal(_)
\* The number a sequence of digits writes in base ten.
Decimal(b) ==
    IF b = <<>> THEN 0
    ELSE 10 * Decimal(SubSeq(b, 1, Len(b) - 1)) + Unwrap(ToDigit(b[Len(b)]))

Parsed == phase = "parsed"

\* C34: a bound of at most u32::MAX is accepted with its value, a larger
\* one is rejected with Error::Overflow, and a value that is returned is
\* never larger than u32::MAX.
C34_Overflow ==
    Parsed =>
        /\ \A b \in Bounds :
               /\ hay = <<"{">> \o b \o <<"}">> =>
                      IF Decimal(b) <= ParseMax
                      THEN out = RepeatOk(Decimal(b), Decimal(b))
                      ELSE out = Overflow
               /\ hay = <<"{">> \o b \o <<",", "}">> =>
                      IF Decimal(b) <= ParseMax
                      THEN out = RepeatOk(Decimal(b), ParseMax)
                      ELSE out = Overflow
               /\ \A c \in SecondBounds :
                      hay = <<"{">> \o b \o <<",">> \o c \o <<"}">> =>
                          IF Decimal(b) <= ParseMax /\ Decimal(c) <= ParseMax
                          THEN out = RepeatOk(Decimal(b), Decimal(c))
                          ELSE out = Overflow
        /\ out.ok => out.min \in 0 .. ParseMax /\ out.max \in 0 .. ParseMax

\* The bound u32::MAX has been accepted.
C34_Witness ==
    /\ Parsed
    /\ hay = <<"{", "3", "1", "}">>
    /\ out = RepeatOk(ParseMax, ParseMax)

\* The bound u32::MAX + 1, whose last digit overflows the addition, and a
\* bound whose multiplication by ten overflows, have been rejected.
C34_WitnessOverflow ==
    /\ Parsed
    /\ out = Overflow
    /\ hay \in { <<"{", "3", "2", "}">>, <<"{", "4", "0", "}">> }

(***************************************************************************)
(* NFA::product.                                                           *)
(***************************************************************************)
\* token_set_intersection
TokenSetIntersection(a_label, b_label) == a_label \cap b_label

\* The function f of the product: the pair of the two states.
PairState(a, b) == <<a, b>>

\* NFA::product: the transitions added for the popped (q, a, b). A token
\* label of self meets every token label of other; an epsilon label of self
\* meets the epsilon label of other only.
ProductTransitions(self, other, a, b) ==
    { t \in { <<PairState(a, b),
                Some(TokenSetIntersection(Unwrap(x[2]), Unwrap(y[2]))),
                PairState(x[3], y[3])>> :
                  x \in {t \in self.transitions : t[1] = a /\ IsSome(t[2])},
                  y \in {t \in other.transitions : t[1] = b /\ IsSome(t[2])} } :
          Unwrap(t[2]) # {} }
    \cup
    { <<PairState(a, b), None, PairState(x[3], y[3])>> :
          x \in {t \in self.transitions : t[1] = a /\ t[2] = None},
          y \in {t \in other.transitions : t[1] = b /\ t[2] = None} }

RECURSIVE ProductLoop(_, _, _, _, _)
\* NFA::product: the loop that pops the stack of (q, a, b).
ProductLoop(self, other, result, visited, stack) ==
    IF stack = {} THEN result
    ELSE LET q == CHOOSE x \in stack : TRUE
         IN IF q \in visited
            THEN ProductLoop(self, other, result, visited, stack \ {q})
            ELSE LET added == ProductTransitions(self, other, q[1], q[2])
                     declared == AddState(result, q)
                     marked ==
                         IF q[1] \in self.final_states /\ q[2] \in other.final_states
                         THEN AddFinalState(declared, q) ELSE declared
                 IN ProductLoop(self, other,
                                [marked EXCEPT !.transitions = @ \cup added],
                                visited \cup {q},
                                (stack \ {q}) \cup {t[3] : t \in added})

\* NFA::product
Product(self, other) ==
    LET initial ==
            {PairState(a, b) : a \in self.initial_states, b \in other.initial_states}
    IN ProductLoop(self, other, [NewNFA EXCEPT !.initial_states = initial], {}, initial)

\* The transitions the operands of the product are made of.
ProductOperandTransitions ==
    { <<0, None, 1>>, <<0, Some({0}), 1>>, <<1, Some({0, 1}), 1>>,
      <<0, Some({1}), 0>>, <<1, Some({0}), 0>> }

ProductOperands ==
    { [states |-> {x[1] : x \in ts} \cup {x[3] : x \in ts}, transitions |-> ts,
       initial_states |-> {0}, final_states |-> fs] :
          ts \in SUBSET ProductOperandTransitions, fs \in { {1}, {0, 1} } }

ProductInit ==
    /\ phase = "operands"
    /\ nfa \in ProductOperands
    /\ aut \in ProductOperands
    /\ out = <<>>
    /\ ire = <<>>
    /\ hay = <<>> /\ rest = <<>> /\ prefix_state = None /\ class = DefaultClass
    /\ position = 0 /\ min = 0 /\ ret = Running /\ recalled = FALSE
    /\ dfa = <<>> /\ mdfa = <<>> /\ aphase = "idle" /\ state_builder = <<>> /\ sessions = <<>>

\* NFA::product: nfa.product(&aut, f)
ProductCall ==
    /\ phase = "operands"
    /\ out' = Product(nfa, aut)
    /\ phase' = "product"
    /\ UNCHANGED <<ire, aut, hay, rest, prefix_state, class, position, min, ret,
                   recalled, autVars>>

ProductSpec == ProductInit /\ [][ProductCall]_vars

ProductWords == SeqsUpTo({0, 1}, MaxLen)

\* C35: the product accepts a token sequence iff both operands accept it.
C35_Product ==
    phase = "product" =>
        \A w \in ProductWords : Accepts(out, w) <=> (Accepts(nfa, w) /\ Accepts(aut, w))

TryMapped == phase = "dfa" /\ aphase = "try_mapped"

\* C36: try_map called with functions that never fail returns Ok of the DFA
\* map returns for the same functions: the same initial state, the same
\* transitions and the same final states.
C36_TryMap ==
    (TryMapped /\ NeverFails(out.f)) =>
        /\ out.ok
        /\ out.d.initial_state = Map(dfa, out.f, out.g).initial_state
        /\ out.d.transitions = Map(dfa, out.f, out.g).transitions
        /\ out.d.final_states = Map(dfa, out.f, out.g).final_states

\* C37: is_singleton and to_singleton return on every NFA, those with a
\* cycle and those no final state of which can be reached included.
C37_Terminates ==
    phase = "query" => IsSome(IsSingleton(nfa)) /\ IsSome(ToSingleton(nfa))

(***************************************************************************)
(* The cursor of a session (position, class, prefix_state, haystack) and   *)
(* the attempts Matches::next makes at a match.                            *)
(***************************************************************************)
\* The tokens the session has consumed.
Consumed == Len(hay) - Len(rest)

\* The cursor is where the tokens consumed put it: the attempts made so far
\* have left nothing behind.
CursorInPlace ==
    /\ rest = SubSeq(hay, Consumed + 1, Len(hay))
    /\ position = Offset(hay, Consumed)
    /\ class = ClassAt(aut.n, hay, Consumed)
    /\ min <= Offset(hay, Len(hay)) + 1

\* An iteration of next() that returns a range.
EmitStep == Matching /\ Matching' /\ Len(out') = Len(out) + 1

\* An iteration of next() that returns no range.
QuietStep == Matching /\ Matching' /\ out' = out

\* C38: an attempt does not move the cursor of the session. The iteration
\* that returns a range leaves position, class, prefix_state and the
\* haystack as they were and sets min to max(end, position + 1); an
\* iteration that returns none leaves min as it was and either moves the
\* cursor over one token, from the values it had before the attempt, or
\* leaves position, class and haystack alone.
C38_AttemptFrame ==
    /\ [](Matching => CursorInPlace)
    /\ [][EmitStep =>
              /\ rest' = rest /\ hay' = hay
              /\ position' = position /\ class' = class
              /\ prefix_state' = prefix_state
              /\ out'[Len(out')][1] = position
              /\ min' = Max(out'[Len(out')][2], position + 1)]_vars
    /\ [][QuietStep =>
              /\ min' = min /\ hay' = hay
              /\ \/ /\ rest # <<>> /\ rest' = Tail(rest)
                    /\ position' = position + TokenLen(Head(rest))
                    /\ class' = NextClass(aut.n, class, Head(rest))
                    /\ IsSome(prefix_state)
                    /\ prefix_state' =
                           NextStateOf(aut.prefix, Unwrap(prefix_state), Head(rest))
                 \/ /\ rest' = rest /\ position' = position /\ class' = class
                    /\ prefix_state' = None]_vars

\* A range of one token or more was returned with tokens left in the
\* haystack, the cursor standing where it stood, before the end of the
\* range; and the session had moved over a token before.
C38_Witness ==
    /\ Matching
    /\ Len(out) >= 1
    /\ ret = RetSome(position, out[Len(out)][2])
    /\ out[Len(out)][2] > position
    /\ rest # <<>>
    /\ Consumed >= 1
    /\ min = out[Len(out)][2]

\* C39: minimize, given the blocks of partition(), builds its result without
\* looking up a state that map does not hold, whatever the DFA built with
\* new, add and add_final_state, sources that cannot be reached from the
\* initial state included.
C39_MinimizeCompletes == DfaMinimized => mdfa.ok

====
